---- MODULE Spec2Model ----
(***************************************************************************)
(* The connection supervisor (xrpl_client/connection.py) and the           *)
(* subscription tracker (xrpl_client/subscriptions.py) as a state machine. *)
(*                                                                         *)
(* The supervisor's connect() loop is one task; its position is pc.  Every *)
(* await of the code is a point where the other tasks may run: the open of *)
(* the transport, each send of a replayed request, the wait for the next   *)
(* frame, the backoff sleep, and each callback of a dispatch.  The         *)
(* transport (xrpl-py's AsyncWebsocketClient, not part of the repository)  *)
(* is the environment: it opens or fails to open, carries frames in        *)
(* order, and may drop at any time.                                        *)
(***************************************************************************)
EXTENDS Integers, Sequences, FiniteSets, Bags, TLC

\* ------------------------------------------------------------------ bounds
\* Consecutive failures explored (1, 2, 4, 8, 16, 30, 30 needs seven).
MaxFailures == 7
\* Consecutive failures explored while callers and callbacks are active.
MaxFlaps == 1
\* Frames the node sends in total, and frames waiting in the transport.
MaxFrames == 3
MaxInbox == 2
\* Length of the replay list, and requests callers put on one transport.
MaxPending == 2
MaxWire == 2
\* Registered callbacks.
MaxCallbacks == 2
\* Transaction hashes, and the lengths of the pending set and of
\* recent-history, explored with repeated hashes.
MaxHashes == 2
MaxPendingTx == 2
MaxHistory == 3
\* Distinct transactions created when recent-history is filled past its
\* capacity; how late a pending one is validated; failed ones among them.
MaxInserts == 60
MaxDelay == 2
MaxFailedTx == 1
\* Balance updates per address.
MaxUpdates == 3
MaxFetches == 2

\* -------------------------------------------------------- program constants
max_reconnect_delay == 30
InitialDelay == 1
max_recent_transactions == 50
\* datetime(2000, 1, 1) in seconds of the Unix epoch, and the seconds of a
\* day (strftime("%H:%M:%S") keeps the time of day).
RippleEpoch == 946684800
SecondsPerDay == 86400

Streams == {"ledger"}
Accounts == {"rABC", "rDEF"}
CallbackIds == {"cb1", "cb2"}
\* The tasks that call the tracker and the connection; all but the race of
\* two subscriptions is checked with the first alone.
Callers == {"caller", "second"}
FirstCaller == {"caller"}
LedgerIndexes == {7, 8}
Errors == {"tecFAILED"}
\* Balances in drops.
Balances == {0, 100000000, 100500000}
Seeds == {"s1", "s2"}
LedgerHashes == {"AB12", "CD34"}
TxnCounts == {0, 3}
\* Raw close times (seconds since the network's epoch), or none supplied.
CloseTimes == {<<>>, <<0>>, <<800000000>>}
\* The application's tasks besides the connection worker.
AppTasks == {"task1"}

ConnectionState == {"DISCONNECTED", "CONNECTING", "CONNECTED", "RECONNECTING"}

Min(a, b) == IF a < b THEN a ELSE b

VARIABLES
  \* XRPLConnectionManager's fields
  _state, _client, _message_callbacks, _reconnect_delay, _should_run,
  _pending_subscriptions,
  \* the connect() task: its position, the dispatch in progress (message,
  \* next callback index, where to continue), the replay index
  pc, ret, msg, cb_idx, rs_idx,
  \* the transport _client refers to: open or not, the frames it holds, the
  \* requests it has carried (a bag: each with how it was sent, by the
  \* replay or by a caller); the frames the node has sent so far
  link_open, inbox, wire, frames_sent,
  \* SubscriptionManager's fields and the callers' tasks
  _subscribed_streams, _subscribed_accounts, tk,
  \* observations: consecutive failures since the last success, the
  \* callbacks called so far in the current dispatch (and whether each
  \* raised), the callbacks that were registered when that dispatch began,
  \* the last frame each callback was handed
  fails, delivered, at_dispatch, last_frame,
  \* the transports that are open at this moment, counted
  open_transports,
  \* XRPLStateStore's fields: the pending set, recent-history, the accounts
  recent_transactions, pending_transactions, accounts,
  \* observations of the store: the last operation called on it and how it
  \* ended, the hashes put into recent-history in the order they were put,
  \* the hashes created so far, the balances passed for each address
  store_op, inserted, tx_count, balance_log,
  \* XRPLStateStore's wallets and ledger; the last get_transaction call and
  \* what it returned
  wallets, ledger, lookup,
  \* XRPLDashboard's fields: the transport handle, who holds _ws_lock, the
  \* displayed ledger index and close time; whether the transport of the
  \* connection worker is open; the connection worker and the other tasks
  _ws_client, _ws_lock, current_ledger, ledger_time, ws_open, wk, ut,
  \* observation: whether the latest Subscribe naming an account went out
  \* on the worker's present transport ("live") or on an earlier one
  \* ("stale"); "none" when there has been no such request
  last_account_sub

supVars == <<_state, _client, _reconnect_delay, _should_run, pc, ret, msg, cb_idx, rs_idx, fails>>
cbVars == <<_message_callbacks, delivered, at_dispatch, last_frame>>
linkVars == <<link_open, inbox, wire, frames_sent, open_transports>>
subVars == <<_pending_subscriptions, _subscribed_streams, _subscribed_accounts, tk>>
storeVars == <<recent_transactions, pending_transactions, accounts, store_op, inserted,
               tx_count, balance_log>>
connVars == <<supVars, cbVars, linkVars, subVars>>
bookVars == <<wallets, ledger, lookup>>
appVars == <<_ws_client, _ws_lock, current_ledger, ledger_time, ws_open, wk, ut,
            last_account_sub>>
hostVars == <<bookVars, appVars>>
vars == <<supVars, cbVars, linkVars, subVars, storeVars, hostVars>>

\* ------------------------------------------------------------ messages
\* _notify_state_change's synthetic message.
StateMessage(s) == [type |-> "__connection_state__", state |-> s, seq |-> 0]
\* A protocol frame, numbered by the node in the order it sends them.
Frame(n) == [type |-> "frame", state |-> "", seq |-> n]

\* Requests: Subscribe and Unsubscribe with their streams and accounts, and
\* any other request of a caller.
Subscribe(streams, addresses) == [kind |-> "Subscribe", streams |-> streams, accounts |-> addresses]
Unsubscribe(streams, addresses) == [kind |-> "Unsubscribe", streams |-> streams, accounts |-> addresses]
OtherRequest == [kind |-> "Other", streams |-> <<>>, accounts |-> <<>>]

\* A caller's task: idle, suspended in the transport's send or request
\* ("sending", and whether the transport it sends on is still open), or
\* back from its call ("returned", with the outcome).
IdleTask == [st |-> "idle", op |-> "none", req |-> OtherRequest, live |-> FALSE, res |-> "none"]
Sending(op, req) == [st |-> "sending", op |-> op, req |-> req, live |-> TRUE, res |-> "none"]
Returned(op, req, res) == [st |-> "returned", op |-> op, req |-> req, live |-> FALSE, res |-> res]

\* ------------------------------------------------------ store records
TransactionStatus == {"PENDING", "VALIDATED", "FAILED"}

\* Optional values: None, or the value.
None == <<>>
Some(x) == <<x>>

\* TransactionState(tx_hash, status, ledger_index), error_message None.
TransactionState(h, status, ledger_index) ==
  [tx_hash |-> h, status |-> status, ledger_index |-> ledger_index, error_message |-> None]

\* TransactionState.mark_validated leaving ledger_index alone.
mark_validated_status_only(tx, ledger_index) == [tx EXCEPT !.status = "VALIDATED"]

\* TransactionState.mark_validated
mark_validated(tx, ledger_index) ==
  [tx EXCEPT !.status = "VALIDATED", !.ledger_index = Some(ledger_index)]

\* TransactionState.mark_failed leaving the status alone.
mark_failed_keeps_status(tx, error) == [tx EXCEPT !.error_message = Some(error)]

\* TransactionState.mark_failed
mark_failed(tx, error) == [tx EXCEPT !.status = "FAILED", !.error_message = Some(error)]

\* AccountState(address, balance), previous_balance None; and an address
\* the accounts dict has no entry for.
AccountState(balance) == [present |-> TRUE, balance |-> balance, previous_balance |-> None]
NoAccount == [present |-> FALSE, balance |-> 0, previous_balance |-> None]

\* AccountState.update_balance keeping the oldest balance as the previous.
update_balance_keeps_oldest(acc, new_balance) ==
  [acc EXCEPT !.previous_balance = IF @ = None THEN Some(acc.balance) ELSE @,
              !.balance = new_balance]

\* AccountState.update_balance
update_balance(acc, new_balance) ==
  [acc EXCEPT !.previous_balance = Some(acc.balance), !.balance = new_balance]

\* AccountState.balance_change
balance_change(acc) ==
  IF acc.previous_balance = None THEN None
  ELSE Some(acc.balance - acc.previous_balance[1])

\* WalletInfo(wallet, source): the wallet is told by its seed; and an
\* address the wallets dict has no entry for.
WalletSource == {"FAUCET", "IMPORTED"}
WalletInfo(seed, source) == [present |-> TRUE, seed |-> seed, source |-> source]
NoWallet == [present |-> FALSE, seed |-> "", source |-> ""]

\* LedgerState(): the ledger cursor before the first update.
LedgerState == [ledger_index |-> 0, ledger_hash |-> "", txn_count |-> 0, close_time |-> None]

\* No get_transaction call yet.
NoLookup == [tx_hash |-> 0, result |-> None]

\* What a task is doing with the transport: which coroutine it runs, where
\* it is in it, the address it works on, the addresses it has still to
\* refresh, and how its last run ended.
NoJob == [kind |-> "none", pc |-> "idle", address |-> "", todo |-> {}, outcome |-> "none"]

\* The connection worker at the head of its loop, handling no frame.
WorkerStart == [pc |-> "connect", job |-> NoJob]

\* The tasks that use the shared transport: the connection worker and the
\* workers and callbacks started from the keyboard.
Tasks == {"worker"} \cup AppTasks

\* The last call on the store: which operation, on which hash, how it ended.
NoCall == [op |-> "none", tx_hash |-> 0, result |-> "none"]
StoreCall(op, h) == [op |-> op, tx_hash |-> h, result |-> "returned"]

\* is_connected without the is_open() call.
is_connected_client_set == _client = "Client"

\* is_connected: a client is set and its transport is open.
is_connected == _client = "Client" /\ link_open

Init ==
  /\ _state = "DISCONNECTED"
  /\ _client = "None"
  /\ _message_callbacks = <<>>
  /\ _reconnect_delay = InitialDelay
  /\ _should_run = FALSE
  /\ _pending_subscriptions = <<>>
  /\ pc = "idle"
  /\ ret = "idle"
  /\ msg = StateMessage("DISCONNECTED")
  /\ cb_idx = 1
  /\ rs_idx = 1
  /\ link_open = FALSE
  /\ inbox = <<>>
  /\ wire = EmptyBag
  /\ frames_sent = 0
  /\ _subscribed_streams = {}
  /\ _subscribed_accounts = {}
  /\ tk = [t \in Callers |-> IdleTask]
  /\ fails = 0
  /\ delivered = <<>>
  /\ at_dispatch = <<>>
  /\ last_frame = [c \in CallbackIds |-> 0]
  /\ open_transports = 0
  /\ recent_transactions = <<>>
  /\ pending_transactions = <<>>
  /\ accounts = [a \in Accounts |-> NoAccount]
  /\ store_op = NoCall
  /\ inserted = <<>>
  /\ tx_count = 0
  /\ balance_log = [a \in Accounts |-> <<>>]
  /\ wallets = [a \in Accounts |-> NoWallet]
  /\ ledger = LedgerState
  /\ lookup = NoLookup
  /\ _ws_client = "None"
  /\ _ws_lock = "free"
  /\ current_ledger = 0
  /\ ledger_time = None
  /\ ws_open = FALSE
  /\ wk = WorkerStart
  /\ ut = [t \in AppTasks |-> NoJob]
  /\ last_account_sub = "none"

\* ------------------------------------------------- the connect() task
\* Notify with the message built before _state is set.
NotifyStale(s, k) ==
  /\ _state' = s
  /\ pc' = "dispatch"
  /\ ret' = k
  /\ msg' = StateMessage(_state)
  /\ cb_idx' = 1
  /\ delivered' = <<>>
  /\ at_dispatch' = _message_callbacks

\* Set _state and start _notify_state_change; continue at k when the
\* dispatch is over.
Notify(s, k) ==
  /\ _state' = s
  /\ pc' = "dispatch"
  /\ ret' = k
  /\ msg' = StateMessage(s)
  /\ cb_idx' = 1
  /\ delivered' = <<>>
  /\ at_dispatch' = _message_callbacks

\* LoopHead leaving the loop after a third failure in a row.
LoopHeadGivesUp ==
  IF _should_run /\ fails < 3 THEN Notify("CONNECTING", "open")
  ELSE Notify("DISCONNECTED", "done")

\* The head of the while loop: another _connect_once, or the way out.
LoopHead ==
  IF _should_run THEN Notify("CONNECTING", "open")
  ELSE Notify("DISCONNECTED", "done")

\* The except branch leaving the loop on every failure.
ExceptHandlerLeaves == Notify("DISCONNECTED", "done")

\* The except branch of connect().
ExceptHandler ==
  IF ~_should_run THEN Notify("DISCONNECTED", "done")
  ELSE Notify("RECONNECTING", "sleep")

\* Every task whose send is in flight on the transport that closes will
\* see its send fail.
Orphaned(t) == [tk[t] EXCEPT !.live = FALSE]

CloseLink ==
  /\ link_open' = FALSE
  /\ open_transports' = IF link_open THEN open_transports - 1 ELSE open_transports
  /\ inbox' = <<>>
  /\ tk' = [t \in Callers |-> Orphaned(t)]

\* connect(): start the supervisor loop.
Connect ==
  /\ pc \in {"idle", "done"}
  /\ _should_run' = TRUE
  /\ _reconnect_delay' = InitialDelay
  /\ fails' = 0
  /\ Notify("CONNECTING", "open")
  /\ UNCHANGED <<_client, rs_idx, _message_callbacks, last_frame, linkVars, subVars>>
  /\ UNCHANGED <<storeVars, hostVars>>

\* disconnect(): only the flag is cleared; the transport is left alone.
Disconnect ==
  /\ _should_run
  /\ _should_run' = FALSE
  /\ UNCHANGED <<_state, _client, _reconnect_delay, pc, ret, msg, cb_idx, rs_idx, fails,
                 cbVars, linkVars, subVars>>
  /\ UNCHANGED <<storeVars, hostVars>>

\* OpenOk with the replay taken up where the last one stopped.
OpenOkResumesReplay ==
  /\ pc = "open"
  /\ _client' = "Client"
  /\ link_open' = TRUE
  /\ open_transports' = open_transports + 1
  /\ inbox' = <<>>
  /\ wire' = EmptyBag
  /\ _reconnect_delay' = InitialDelay
  /\ fails' = 0
  /\ rs_idx' = rs_idx
  /\ Notify("CONNECTED", "restore")
  /\ UNCHANGED <<_should_run, _message_callbacks, last_frame, frames_sent, subVars>>
  /\ UNCHANGED <<storeVars, hostVars>>

\* The transport opens: the client is set, the state is CONNECTED, the
\* backoff is reset.
OpenOk ==
  /\ pc = "open"
  /\ _client' = "Client"
  /\ link_open' = TRUE
  /\ open_transports' = open_transports + 1
  /\ inbox' = <<>>
  /\ wire' = EmptyBag
  /\ _reconnect_delay' = InitialDelay
  /\ fails' = 0
  /\ rs_idx' = 1
  /\ Notify("CONNECTED", "restore")
  /\ UNCHANGED <<_should_run, _message_callbacks, last_frame, frames_sent, subVars>>
  /\ UNCHANGED <<storeVars, hostVars>>

\* The transport fails to open: the exception reaches connect().
OpenFails(cap) ==
  /\ pc = "open"
  /\ fails < cap
  /\ fails' = fails + 1
  /\ ExceptHandler
  /\ UNCHANGED <<_client, _reconnect_delay, _should_run, rs_idx, _message_callbacks,
                 last_frame, linkVars, subVars>>
  /\ UNCHANGED <<storeVars, hostVars>>

\* NextDelay without its cap.
NextDelayUncapped == _reconnect_delay * 2

\* The delay after a sleep: doubled, capped at max_reconnect_delay.
NextDelay == Min(_reconnect_delay * 2, max_reconnect_delay)

\* The backoff sleep (of _reconnect_delay) is over: the delay is raised and
\* the loop goes round.
SleepDone ==
  /\ pc = "sleep"
  /\ _reconnect_delay' = NextDelay
  /\ LoopHead
  /\ UNCHANGED <<_client, _should_run, rs_idx, fails, _message_callbacks, last_frame, linkVars, subVars>>
  /\ UNCHANGED <<storeVars, hostVars>>

\* AfterCallback with the exception ending the dispatch loop.
AfterCallbackAborting(raised) ==
  /\ cb_idx' = IF raised THEN Len(_message_callbacks) + 1 ELSE cb_idx + 1
  /\ UNCHANGED <<_state, pc, ret, msg>>

\* What a callback's return or exception does to the dispatch loop: the
\* exception is swallowed, the loop goes on with the next callback.
AfterCallback(raised) ==
  /\ cb_idx' = cb_idx + 1
  /\ UNCHANGED <<_state, pc, ret, msg>>

\* _dispatch_message, one callback: the callback at the loop's index is
\* called with the message; it returns or raises.
DispatchCallback ==
  /\ pc = "dispatch"
  /\ cb_idx <= Len(_message_callbacks)
  /\ \E raised \in BOOLEAN :
       /\ delivered' = Append(delivered, [cb |-> _message_callbacks[cb_idx], raised |-> raised])
       /\ AfterCallback(raised)
  /\ UNCHANGED at_dispatch
  /\ last_frame' = IF msg.type = "frame"
                   THEN [last_frame EXCEPT ![_message_callbacks[cb_idx]] = msg.seq]
                   ELSE last_frame
  /\ UNCHANGED <<_client, _reconnect_delay, _should_run, rs_idx, fails,
                 _message_callbacks, linkVars, subVars>>
  /\ UNCHANGED <<storeVars, hostVars>>

\* _dispatch_message, the end of the list: the caller continues.
DispatchDone ==
  /\ pc = "dispatch"
  /\ cb_idx > Len(_message_callbacks)
  /\ pc' = ret
  /\ delivered' = <<>>
  /\ at_dispatch' = <<>>
  /\ UNCHANGED <<_state, _client, _reconnect_delay, _should_run, ret, msg, cb_idx, rs_idx,
                 fails, _message_callbacks, last_frame, linkVars, subVars>>
  /\ UNCHANGED <<storeVars, hostVars>>

\* ReplayRequest always sending the first request of the list.
ReplayFirstRequest == _pending_subscriptions[1]

\* The request _restore_subscriptions sends at its index.
ReplayRequest == _pending_subscriptions[rs_idx]

\* _restore_subscriptions, one request of the replay list, sent on the
\* open transport.
RestoreSend ==
  /\ pc = "restore"
  /\ rs_idx <= Len(_pending_subscriptions)
  /\ is_connected
  /\ wire' = wire (+) SetToBag({[req |-> ReplayRequest, via |-> "replay"]})
  /\ rs_idx' = rs_idx + 1
  /\ UNCHANGED <<_state, _client, _reconnect_delay, _should_run, pc, ret, msg, cb_idx, fails,
                 cbVars, link_open, inbox, frames_sent, open_transports, subVars>>
  /\ UNCHANGED <<storeVars, hostVars>>

\* _restore_subscriptions, one request skipped: the transport is closed.
RestoreSkip ==
  /\ pc = "restore"
  /\ rs_idx <= Len(_pending_subscriptions)
  /\ ~is_connected
  /\ rs_idx' = rs_idx + 1
  /\ UNCHANGED <<_state, _client, _reconnect_delay, _should_run, pc, ret, msg, cb_idx, fails,
                 cbVars, linkVars, subVars>>
  /\ UNCHANGED <<storeVars, hostVars>>

\* _restore_subscriptions, the transport breaks under a send: the
\* exception leaves the async with (which closes the transport, and skips
\* line 122) and reaches connect().
RestoreSendFails(cap) ==
  /\ pc = "restore"
  /\ rs_idx <= Len(_pending_subscriptions)
  /\ is_connected
  /\ fails < cap
  /\ fails' = fails + 1
  /\ CloseLink
  /\ wire' = EmptyBag
  /\ ExceptHandler
  /\ UNCHANGED <<_client, _reconnect_delay, _should_run, rs_idx, _message_callbacks,
                 last_frame, frames_sent, _pending_subscriptions,
                 _subscribed_streams, _subscribed_accounts>>
  /\ UNCHANGED <<storeVars, hostVars>>

\* _restore_subscriptions is over: the read loop starts.
RestoreDone ==
  /\ pc = "restore"
  /\ rs_idx > Len(_pending_subscriptions)
  /\ pc' = "read"
  /\ UNCHANGED <<_state, _client, _reconnect_delay, _should_run, ret, msg, cb_idx, rs_idx,
                 fails, cbVars, linkVars, subVars>>
  /\ UNCHANGED <<storeVars, hostVars>>

\* TakeFrame taking the newest frame first.
TakeNewestFrame == [frame |-> inbox[Len(inbox)], rest |-> SubSeq(inbox, 1, Len(inbox) - 1)]

\* The frame the read loop takes from the transport, and what the
\* transport holds then: frames come out in the order they came in.
TakeFrame == [frame |-> Head(inbox), rest |-> Tail(inbox)]

\* The read loop may take a frame.
CanRead == pc = "read"

\* async for: a frame arrives while the supervisor should run: dispatch it.
ReadFrame ==
  /\ CanRead
  /\ link_open
  /\ inbox # <<>>
  /\ _should_run
  /\ inbox' = TakeFrame.rest
  /\ pc' = "dispatch"
  /\ ret' = "read"
  /\ msg' = Frame(TakeFrame.frame)
  /\ cb_idx' = 1
  /\ delivered' = <<>>
  /\ at_dispatch' = _message_callbacks
  /\ UNCHANGED <<_state, _client, _reconnect_delay, _should_run, rs_idx, fails,
                 _message_callbacks, last_frame, link_open, wire, frames_sent,
                 open_transports, subVars>>
  /\ UNCHANGED <<storeVars, hostVars>>

\* async for: a frame arrives after disconnect(): break, the async with
\* closes the transport, line 122 clears the client, the loop ends.
ReadFrameStopped ==
  /\ pc = "read"
  /\ link_open
  /\ inbox # <<>>
  /\ ~_should_run
  /\ CloseLink
  /\ wire' = EmptyBag
  /\ _client' = "None"
  /\ LoopHead
  /\ UNCHANGED <<_reconnect_delay, _should_run, rs_idx, fails, _message_callbacks,
                 last_frame, frames_sent, _pending_subscriptions,
                 _subscribed_streams, _subscribed_accounts>>
  /\ UNCHANGED <<storeVars, hostVars>>

\* async for: the transport has closed and the iteration just ends: the
\* async with is left normally, line 122 clears the client, and connect()
\* goes round its loop.
ReadEnds ==
  /\ pc = "read"
  /\ ~link_open
  /\ _client' = "None"
  /\ LoopHead
  /\ UNCHANGED <<_reconnect_delay, _should_run, rs_idx, fails, _message_callbacks,
                 last_frame, linkVars, subVars>>
  /\ UNCHANGED <<storeVars, hostVars>>

\* async for: the transport has closed and the read raises: the exception
\* skips line 122 and reaches connect().
ReadRaises(cap) ==
  /\ pc = "read"
  /\ ~link_open
  /\ fails < cap
  /\ fails' = fails + 1
  /\ ExceptHandler
  /\ UNCHANGED <<_client, _reconnect_delay, _should_run, rs_idx, _message_callbacks,
                 last_frame, linkVars, subVars>>
  /\ UNCHANGED <<storeVars, hostVars>>

\* ------------------------------------------------------ the transport
\* The node sends a frame on the open transport.
NodeFrame ==
  /\ link_open
  /\ frames_sent < MaxFrames
  /\ Len(inbox) < MaxInbox
  /\ frames_sent' = frames_sent + 1
  /\ inbox' = Append(inbox, frames_sent + 1)
  /\ UNCHANGED <<supVars, cbVars, link_open, wire, open_transports, subVars>>
  /\ UNCHANGED <<storeVars, hostVars>>

\* The transport drops (the node or the network closes it).
NetDrop ==
  /\ link_open
  /\ CloseLink
  /\ wire' = EmptyBag
  /\ UNCHANGED <<supVars, cbVars, frames_sent, _pending_subscriptions,
                 _subscribed_streams, _subscribed_accounts>>
  /\ UNCHANGED <<storeVars, hostVars>>

\* ------------------------------------------------------ the callbacks
\* on_message(callback)
on_message(c) ==
  /\ Len(_message_callbacks) < MaxCallbacks
  /\ _message_callbacks' = Append(_message_callbacks, c)
  /\ UNCHANGED <<supVars, delivered, at_dispatch, last_frame, linkVars, subVars>>
  /\ UNCHANGED <<storeVars, hostVars>>

\* list.remove: the list without the first occurrence of c.
RemoveFirst(s, c) ==
  LET i == CHOOSE k \in 1..Len(s) : s[k] = c /\ \A j \in 1..(k - 1) : s[j] # c
  IN  [k \in 1..(Len(s) - 1) |-> IF k < i THEN s[k] ELSE s[k + 1]]

\* remove_message_callback(callback)
remove_message_callback(c) ==
  /\ \E k \in 1..Len(_message_callbacks) : _message_callbacks[k] = c
  /\ _message_callbacks' = RemoveFirst(_message_callbacks, c)
  /\ UNCHANGED <<supVars, delivered, at_dispatch, last_frame, linkVars, subVars>>
  /\ UNCHANGED <<storeVars, hostVars>>

\* ------------------------------------------------- callers' tasks
Range(s) == {s[i] : i \in 1..Len(s)}

\* The lists that enumerate a set, each element once (list(a_set)).
ListsOf(S) == {l \in [1..Cardinality(S) -> S] : Range(l) = S}

\* The address lists callers pass to subscribe_accounts.
AddrLists == UNION {[1..n -> Accounts] : n \in 1..2}

\* The streams and accounts a request names.
Covers(r) == [streams |-> Range(r.streams), accounts |-> Range(r.accounts)]

\* SendStart with the append to the replay list before the connection check.
SendStartAppendFirst(t, op, req, track) ==
  /\ _pending_subscriptions' = IF track THEN Append(_pending_subscriptions, req)
                                ELSE _pending_subscriptions
  /\ tk' = [tk EXCEPT ![t] = IF ~is_connected THEN Returned(op, req, "NotConnected")
                             ELSE Sending(op, req)]

\* send(request, track_subscription) up to its await: the connection
\* check, the append to the replay list, then the transport's send.
SendStart(t, op, req, track) ==
  IF ~is_connected
  THEN /\ tk' = [tk EXCEPT ![t] = Returned(op, req, "NotConnected")]
       /\ UNCHANGED _pending_subscriptions
  ELSE /\ _pending_subscriptions' = IF track THEN Append(_pending_subscriptions, req)
                                     ELSE _pending_subscriptions
       /\ tk' = [tk EXCEPT ![t] = Sending(op, req)]

\* RequestStart with only the client reference checked, not is_open().
RequestStartUnchecked(t, op, req) ==
  /\ tk' = [tk EXCEPT ![t] = IF _client = "None" THEN Returned(op, req, "NotConnected")
                             ELSE Sending(op, req)]
  /\ UNCHANGED _pending_subscriptions

\* request(request) up to its await: the connection check, then the
\* transport's request.
RequestStart(t, op, req) ==
  /\ tk' = [tk EXCEPT ![t] = IF ~is_connected THEN Returned(op, req, "NotConnected")
                             ELSE Sending(op, req)]
  /\ UNCHANGED _pending_subscriptions

\* A caller may start a call: its task is idle, and the model's bounds on
\* the replay list and on the transport's log leave room.
MayCall(t) ==
  /\ tk[t].st = "idle"
  /\ BagCardinality(wire) < MaxWire
  /\ Len(_pending_subscriptions) < MaxPending

\* send(request, track_subscription) called directly.
Send(t, track) ==
  /\ MayCall(t)
  /\ SendStart(t, IF track THEN "send_tracked" ELSE "send", OtherRequest, track)
  /\ UNCHANGED <<supVars, cbVars, linkVars, _subscribed_streams, _subscribed_accounts>>
  /\ UNCHANGED <<storeVars, hostVars>>

\* request(request) called directly.
Request(t) ==
  /\ MayCall(t)
  /\ RequestStart(t, "request", OtherRequest)
  /\ UNCHANGED <<supVars, cbVars, linkVars, _subscribed_streams, _subscribed_accounts>>
  /\ UNCHANGED <<storeVars, hostVars>>

\* _subscribe_stream(stream)
subscribe_stream(t, stream) ==
  /\ MayCall(t)
  /\ IF stream \in _subscribed_streams
     THEN /\ tk' = [tk EXCEPT ![t] = Returned("subscribe_stream", OtherRequest, "noop")]
          /\ UNCHANGED _pending_subscriptions
     ELSE SendStart(t, "subscribe_stream", Subscribe(<<stream>>, <<>>), TRUE)
  /\ UNCHANGED <<supVars, cbVars, linkVars, _subscribed_streams, _subscribed_accounts>>
  /\ UNCHANGED <<storeVars, hostVars>>

\* unsubscribe_stream with its request tracked for replay.
unsubscribe_stream_tracked(t, stream) ==
  /\ MayCall(t)
  /\ IF stream \notin _subscribed_streams
     THEN /\ tk' = [tk EXCEPT ![t] = Returned("unsubscribe_stream", OtherRequest, "noop")]
          /\ UNCHANGED _pending_subscriptions
     ELSE SendStart(t, "unsubscribe_stream", Unsubscribe(<<stream>>, <<>>), TRUE)
  /\ UNCHANGED <<supVars, cbVars, linkVars, _subscribed_streams, _subscribed_accounts>>
  /\ UNCHANGED <<storeVars, hostVars>>

\* unsubscribe_stream(stream)
unsubscribe_stream(t, stream) ==
  /\ MayCall(t)
  /\ IF stream \notin _subscribed_streams
     THEN /\ tk' = [tk EXCEPT ![t] = Returned("unsubscribe_stream", OtherRequest, "noop")]
          /\ UNCHANGED _pending_subscriptions
     ELSE SendStart(t, "unsubscribe_stream", Unsubscribe(<<stream>>, <<>>), FALSE)
  /\ UNCHANGED <<supVars, cbVars, linkVars, _subscribed_streams, _subscribed_accounts>>
  /\ UNCHANGED <<storeVars, hostVars>>

\* NewAddresses without the filter on the tracker's set.
NewAddressesUnfiltered(addresses) == addresses

\* The addresses of the list that are not subscribed yet, in the list's
\* order.
NewAddresses(addresses) == SelectSeq(addresses, LAMBDA a : a \notin _subscribed_accounts)

\* subscribe_accounts(addresses)
subscribe_accounts(t, addresses) ==
  /\ MayCall(t)
  /\ IF NewAddresses(addresses) = <<>>
     THEN /\ tk' = [tk EXCEPT ![t] = Returned("subscribe_accounts", OtherRequest, "noop")]
          /\ UNCHANGED _pending_subscriptions
     ELSE SendStart(t, "subscribe_accounts", Subscribe(<<>>, NewAddresses(addresses)), TRUE)
  /\ UNCHANGED <<supVars, cbVars, linkVars, _subscribed_streams, _subscribed_accounts>>
  /\ UNCHANGED <<storeVars, hostVars>>

\* unsubscribe_account(address)
unsubscribe_account(t, address) ==
  /\ MayCall(t)
  /\ IF address \notin _subscribed_accounts
     THEN /\ tk' = [tk EXCEPT ![t] = Returned("unsubscribe_account", OtherRequest, "noop")]
          /\ UNCHANGED _pending_subscriptions
     ELSE SendStart(t, "unsubscribe_account", Unsubscribe(<<>>, <<address>>), FALSE)
  /\ UNCHANGED <<supVars, cbVars, linkVars, _subscribed_streams, _subscribed_accounts>>
  /\ UNCHANGED <<storeVars, hostVars>>

\* unsubscribe_all(), from its second if: the accounts, then
\* clear_subscriptions.
UnsubscribeAllAccounts(t) ==
  IF _subscribed_accounts # {}
  THEN \E l \in ListsOf(_subscribed_accounts) :
         SendStart(t, "unsubscribe_all_accounts", Unsubscribe(<<>>, l), FALSE)
  ELSE /\ _pending_subscriptions' = <<>>
       /\ tk' = [tk EXCEPT ![t] = Returned("unsubscribe_all", OtherRequest, "ok")]

\* unsubscribe_all(), from its start.
unsubscribe_all(t) ==
  /\ MayCall(t)
  /\ IF _subscribed_streams # {}
     THEN \E l \in ListsOf(_subscribed_streams) :
            SendStart(t, "unsubscribe_all_streams", Unsubscribe(l, <<>>), FALSE)
     ELSE UnsubscribeAllAccounts(t)
  /\ UNCHANGED <<supVars, cbVars, linkVars, _subscribed_streams, _subscribed_accounts>>
  /\ UNCHANGED <<storeVars, hostVars>>

\* What the caller does when the transport's send has returned.
AfterSend(t) ==
  LET op == tk[t].op
      c == Covers(tk[t].req)
      done == [tk EXCEPT ![t] = Returned(op, tk[t].req, "ok")]
  IN  CASE op = "subscribe_stream" ->
             /\ _subscribed_streams' = _subscribed_streams \cup c.streams
             /\ tk' = done
             /\ UNCHANGED <<_subscribed_accounts, _pending_subscriptions>>
        [] op = "unsubscribe_stream" ->
             /\ _subscribed_streams' = _subscribed_streams \ c.streams
             /\ tk' = done
             /\ UNCHANGED <<_subscribed_accounts, _pending_subscriptions>>
        [] op = "subscribe_accounts" ->
             /\ _subscribed_accounts' = _subscribed_accounts \cup c.accounts
             /\ tk' = done
             /\ UNCHANGED <<_subscribed_streams, _pending_subscriptions>>
        [] op = "unsubscribe_account" ->
             /\ _subscribed_accounts' = _subscribed_accounts \ c.accounts
             /\ tk' = done
             /\ UNCHANGED <<_subscribed_streams, _pending_subscriptions>>
        [] op = "unsubscribe_all_streams" ->
             /\ _subscribed_streams' = {}
             /\ UNCHANGED _subscribed_accounts
             /\ UnsubscribeAllAccounts(t)
        [] op = "unsubscribe_all_accounts" ->
             /\ _subscribed_accounts' = {}
             /\ _pending_subscriptions' = <<>>
             /\ tk' = [tk EXCEPT ![t] = Returned("unsubscribe_all", tk[t].req, "ok")]
             /\ UNCHANGED _subscribed_streams
        [] OTHER ->
             /\ tk' = done
             /\ UNCHANGED <<_subscribed_streams, _subscribed_accounts, _pending_subscriptions>>

\* The transport's send (or request) returns: the request has gone out on
\* the transport the caller started on, and the caller continues.
SendReturns(t) ==
  /\ tk[t].st = "sending"
  /\ tk[t].live
  /\ wire' = wire (+) SetToBag({[req |-> tk[t].req,
                                  via |-> IF tk[t].op = "request" THEN "request" ELSE "send"]})
  /\ AfterSend(t)
  /\ UNCHANGED <<supVars, cbVars, link_open, inbox, frames_sent, open_transports>>
  /\ UNCHANGED <<storeVars, hostVars>>

\* The transport's send (or request) raises: the transport has closed.
\* The exception leaves the caller's operation.
SendRaises(t) ==
  /\ tk[t].st = "sending"
  /\ ~tk[t].live
  /\ tk' = [tk EXCEPT ![t] = Returned(tk[t].op, tk[t].req, "TransportError")]
  /\ UNCHANGED <<supVars, cbVars, linkVars, _pending_subscriptions, _subscribed_streams,
                 _subscribed_accounts>>
  /\ UNCHANGED <<storeVars, hostVars>>

\* The caller has its result and is free for its next call.
CallerMovesOn(t) ==
  /\ tk[t].st = "returned"
  /\ tk' = [tk EXCEPT ![t] = IdleTask]
  /\ UNCHANGED <<supVars, cbVars, linkVars, _pending_subscriptions, _subscribed_streams,
                 _subscribed_accounts>>
  /\ UNCHANGED <<storeVars, hostVars>>

\* One caller's calls.
Caller(t) ==
  \/ \E s \in Streams : subscribe_stream(t, s)
  \/ \E s \in Streams : unsubscribe_stream(t, s)
  \/ \E l \in AddrLists : subscribe_accounts(t, l)
  \/ \E a \in Accounts : unsubscribe_account(t, a)
  \/ unsubscribe_all(t)
  \/ SendReturns(t)
  \/ SendRaises(t)
  \/ CallerMovesOn(t)

\* ------------------------------------------------------ the state store
\* PendingIndex matching a transaction whatever its hash.
PendingIndexAnyHash(tx_hash) == IF pending_transactions = <<>> THEN 0 ELSE 1

\* The place of the first pending transaction with the hash (the one the
\* for loop of mark_transaction_validated / mark_transaction_failed stops
\* at), or 0 when the loop runs out.
PendingIndex(tx_hash) ==
  LET hits == {i \in 1..Len(pending_transactions) : pending_transactions[i].tx_hash = tx_hash}
  IN  IF hits = {} THEN 0 ELSE CHOOSE i \in hits : \A j \in hits : i <= j

\* Trimmed keeping the tail of the list.
TrimmedKeepingOldest(txs) ==
  IF Len(txs) > max_recent_transactions
  THEN SubSeq(txs, Len(txs) - max_recent_transactions + 1, Len(txs))
  ELSE txs

\* The history trimmed to max_recent_transactions, from the tail.
Trimmed(txs) ==
  IF Len(txs) > max_recent_transactions THEN SubSeq(txs, 1, max_recent_transactions)
  ELSE txs

\* The number of hashes created so far, when hashes are numbered as they
\* are created.
Created(tx_hash) == IF tx_hash > tx_count THEN tx_hash ELSE tx_count

\* add_pending_transaction(tx_hash, ...)
add_pending_transaction(tx_hash) ==
  /\ pending_transactions' = Append(pending_transactions, TransactionState(tx_hash, "PENDING", None))
  /\ store_op' = StoreCall("add_pending_transaction", tx_hash)
  /\ tx_count' = Created(tx_hash)
  /\ UNCHANGED <<recent_transactions, accounts, inserted, balance_log, connVars, hostVars>>

\* mark_transaction_validated(tx_hash, ledger_index)
mark_transaction_validated(tx_hash, ledger_index) ==
  /\ LET i == PendingIndex(tx_hash)
         marked == [pending_transactions EXCEPT ![i] = mark_validated(@, ledger_index)]
     IN  IF i = 0
         THEN UNCHANGED <<pending_transactions, recent_transactions, inserted>>
         ELSE /\ pending_transactions' = RemoveFirst(marked, marked[i])
              /\ recent_transactions' = Trimmed(<<marked[i]>> \o recent_transactions)
              /\ inserted' = Append(inserted, marked[i].tx_hash)
  /\ store_op' = StoreCall("mark_transaction_validated", tx_hash)
  /\ UNCHANGED <<accounts, tx_count, balance_log, connVars, hostVars>>

\* mark_transaction_failed(tx_hash, error): the history is not trimmed.
mark_transaction_failed(tx_hash, error) ==
  /\ LET i == PendingIndex(tx_hash)
         marked == [pending_transactions EXCEPT ![i] = mark_failed(@, error)]
     IN  IF i = 0
         THEN UNCHANGED <<pending_transactions, recent_transactions, inserted>>
         ELSE /\ pending_transactions' = RemoveFirst(marked, marked[i])
              /\ recent_transactions' = <<marked[i]>> \o recent_transactions
              /\ inserted' = Append(inserted, marked[i].tx_hash)
  /\ store_op' = StoreCall("mark_transaction_failed", tx_hash)
  /\ UNCHANGED <<accounts, tx_count, balance_log, connVars, hostVars>>

\* add_received_transaction(tx_hash, ..., ledger_index, ...)
add_received_transaction(tx_hash, ledger_index) ==
  /\ recent_transactions' =
       Trimmed(<<TransactionState(tx_hash, "VALIDATED", Some(ledger_index))>> \o recent_transactions)
  /\ inserted' = Append(inserted, tx_hash)
  /\ store_op' = StoreCall("add_received_transaction", tx_hash)
  /\ tx_count' = Created(tx_hash)
  /\ UNCHANGED <<pending_transactions, accounts, balance_log, connVars, hostVars>>

\* update_account_balance(address, balance)
store_update_account_balance(address, balance) ==
  /\ Len(balance_log[address]) < MaxUpdates
  /\ accounts' = [accounts EXCEPT ![address] =
                    IF @.present THEN update_balance(@, balance) ELSE AccountState(balance)]
  /\ balance_log' = [balance_log EXCEPT ![address] = Append(@, balance)]
  /\ UNCHANGED <<recent_transactions, pending_transactions, store_op, inserted, tx_count, bookVars>>

\* update_account_balance called on the store alone.
update_account_balance(address, balance) ==
  /\ store_update_account_balance(address, balance)
  /\ UNCHANGED <<connVars, appVars>>

\* add_wallet putting a fresh AccountState in place of the one there is.
add_wallet_resets_account(address, seed, source) ==
  /\ wallets' = [wallets EXCEPT ![address] = WalletInfo(seed, source)]
  /\ accounts' = [accounts EXCEPT ![address] = AccountState(0)]
  /\ store_op' = StoreCall("add_wallet", 0)
  /\ UNCHANGED <<recent_transactions, pending_transactions, inserted, tx_count, balance_log,
                 ledger, lookup, appVars, connVars>>

\* add_wallet(wallet, source): the address is the wallet's.
store_add_wallet(address, seed, source) ==
  /\ wallets' = [wallets EXCEPT ![address] = WalletInfo(seed, source)]
  /\ accounts' = [accounts EXCEPT ![address] = IF @.present THEN @ ELSE AccountState(0)]
  /\ store_op' = StoreCall("add_wallet", 0)
  /\ UNCHANGED <<recent_transactions, pending_transactions, inserted, tx_count, balance_log,
                 ledger, lookup>>

\* add_wallet called on the store alone.
add_wallet(address, seed, source) ==
  /\ store_add_wallet(address, seed, source)
  /\ UNCHANGED <<appVars, connVars>>

\* remove_wallet(address): the account state is kept.
remove_wallet(address) ==
  /\ wallets' = [wallets EXCEPT ![address] = NoWallet]
  /\ store_op' = StoreCall("remove_wallet", 0)
  /\ UNCHANGED <<recent_transactions, pending_transactions, accounts, inserted, tx_count,
                 balance_log, ledger, lookup, appVars, connVars>>

\* add_account(address, balance): an account without a wallet; the balance
\* is 0 when none is given, and an account that exists is left as it is.
add_account(address, balance) ==
  /\ accounts' = [accounts EXCEPT ![address] =
                    IF @.present THEN @
                    ELSE AccountState(IF balance = None THEN 0 ELSE balance[1])]
  /\ store_op' = StoreCall("add_account", 0)
  /\ UNCHANGED <<recent_transactions, pending_transactions, inserted, tx_count, balance_log,
                 bookVars, appVars, connVars>>

\* remove_account leaving the wallet in the store.
remove_account_keeps_wallet(address) ==
  /\ accounts' = [accounts EXCEPT ![address] = NoAccount]
  /\ store_op' = StoreCall("remove_account", 0)
  /\ UNCHANGED <<recent_transactions, pending_transactions, inserted, tx_count, balance_log,
                 bookVars, appVars, connVars>>

\* What remove_account does to the store: the account goes, and
\* remove_wallet takes the wallet.
store_remove_account(address) ==
  /\ accounts' = [accounts EXCEPT ![address] = NoAccount]
  /\ wallets' = [wallets EXCEPT ![address] = NoWallet]
  /\ store_op' = StoreCall("remove_account", 0)
  /\ UNCHANGED <<recent_transactions, pending_transactions, inserted, tx_count, balance_log,
                 ledger, lookup>>

\* remove_account(address)
remove_account(address) ==
  /\ store_remove_account(address)
  /\ UNCHANGED <<appVars, connVars>>

\* `if close_time:` : a close time is supplied and is not 0.
Truthy(close_time) == close_time # None /\ close_time[1] # 0

\* datetime.fromtimestamp(ripple_epoch.timestamp() + close_time), in
\* seconds of the Unix epoch.
FromRippleTime(close_time) == RippleEpoch + close_time

\* The ledger cursor update_ledger leaves.
UpdatedLedger(ledger_index, ledger_hash, close_time, txn_count) ==
  [ledger_index |-> ledger_index,
   ledger_hash |-> ledger_hash,
   txn_count |-> txn_count,
   close_time |-> IF Truthy(close_time) THEN Some(FromRippleTime(close_time[1]))
                  ELSE ledger.close_time]

\* update_ledger(ledger_index, ledger_hash, close_time, txn_count)
update_ledger(ledger_index, ledger_hash, close_time, txn_count) ==
  /\ ledger' = UpdatedLedger(ledger_index, ledger_hash, close_time, txn_count)
  /\ UNCHANGED <<storeVars, wallets, lookup, appVars, connVars>>

\* The place of the first transaction of recent-history with the hash, or 0.
RecentIndex(tx_hash) ==
  LET hits == {i \in 1..Len(recent_transactions) : recent_transactions[i].tx_hash = tx_hash}
  IN  IF hits = {} THEN 0 ELSE CHOOSE i \in hits : \A j \in hits : i <= j

\* FoundTransaction searching recent-history before the pending set.
FoundTransactionHistoryFirst(tx_hash) ==
  IF RecentIndex(tx_hash) # 0 THEN Some(recent_transactions[RecentIndex(tx_hash)])
  ELSE IF PendingIndex(tx_hash) # 0 THEN Some(pending_transactions[PendingIndex(tx_hash)])
  ELSE None

\* What get_transaction returns: the pending set is searched first, then
\* recent-history; None when neither has the hash.
FoundTransaction(tx_hash) ==
  IF PendingIndex(tx_hash) # 0 THEN Some(pending_transactions[PendingIndex(tx_hash)])
  ELSE IF RecentIndex(tx_hash) # 0 THEN Some(recent_transactions[RecentIndex(tx_hash)])
  ELSE None

\* get_transaction(tx_hash)
get_transaction(tx_hash) ==
  /\ lookup' = [tx_hash |-> tx_hash, result |-> FoundTransaction(tx_hash)]
  /\ UNCHANGED <<storeVars, wallets, ledger, appVars, connVars>>

\* ------------------------------------------- the hosting application
\* The job a task runs, and the task's variable with the job replaced.
Job(t) == IF t = "worker" THEN wk.job ELSE ut[t]

SetJob(t, j) ==
  IF t = "worker" THEN wk' = [wk EXCEPT !.job = j] /\ UNCHANGED ut
  ELSE ut' = [ut EXCEPT ![t] = j] /\ UNCHANGED wk

\* The task is inside an `async with self._get_client()` block.
InBlock(t) == Job(t).pc \in {"generate", "subscribe", "balance", "refresh", "submit"}

\* The test of _get_client: the client is set and is_open().
ClientUsable == _ws_client = "Client" /\ ws_open

\* store.account_addresses: the keys of accounts.  The loop of
\* _refresh_account_balances takes them in the dict's order; here in any.
account_addresses == {a \in Accounts : accounts[a].present}

\* The first await of each coroutine's block.
FirstStep(kind) ==
  CASE kind = "faucet" -> "generate"
    [] kind = "import" -> "subscribe"
    [] kind = "payment" -> "submit"
    [] OTHER -> "refresh"

\* A job that has started, and a job that is over.
Started(kind, address) == [NoJob EXCEPT !.kind = kind, !.pc = "acquire", !.address = address]
Ended(outcome) == [NoJob EXCEPT !.outcome = outcome]

\* What a step of the application that does not call the store leaves alone.
StoreUntouched == UNCHANGED <<storeVars, bookVars>>

\* ---- the connection worker, _connect_xrpl
\* One step of the worker's own loop: from one place to the next.
WorkerAt(place) == wk.pc = place /\ wk.job.pc = "idle"
WorkerTo(place) == wk' = [wk EXCEPT !.pc = place]

\* AsyncWebsocketClient opens.
WkOpenOk ==
  /\ WorkerAt("connect")
  /\ ws_open' = TRUE
  /\ WorkerTo("setclient")
  /\ UNCHANGED <<_ws_client, _ws_lock, current_ledger, ledger_time, ut>>
  /\ StoreUntouched
  /\ last_account_sub' = IF last_account_sub = "none" THEN "none" ELSE "stale"
  /\ UNCHANGED connVars

\* AsyncWebsocketClient fails to open: the except branch, then the sleep.
WkOpenFails ==
  /\ WorkerAt("connect")
  /\ WorkerTo("sleep")
  /\ UNCHANGED <<_ws_client, _ws_lock, current_ledger, ledger_time, ws_open, ut>>
  /\ StoreUntouched
  /\ UNCHANGED last_account_sub
  /\ UNCHANGED connVars

\* The client is set under the lock; the lock is taken when it is free and
\* released at once.
WkSetClient ==
  /\ WorkerAt("setclient")
  /\ _ws_lock = "free"
  /\ _ws_client' = "Client"
  /\ WorkerTo("subscribe")
  /\ UNCHANGED <<_ws_lock, current_ledger, ledger_time, ws_open, ut>>
  /\ StoreUntouched
  /\ UNCHANGED last_account_sub
  /\ UNCHANGED connVars

\* client.send(Subscribe(streams=[LEDGER])) returns.
WkSubscribed ==
  /\ WorkerAt("subscribe")
  /\ ws_open
  /\ WorkerTo("read")
  /\ UNCHANGED <<_ws_client, _ws_lock, current_ledger, ledger_time, ws_open, ut>>
  /\ StoreUntouched
  /\ UNCHANGED last_account_sub
  /\ UNCHANGED connVars

\* The send raises: the transport's block is left, which closes it, and the
\* except branch starts the sleep.
WkSubscribeFails ==
  /\ WorkerAt("subscribe")
  /\ ws_open' = FALSE
  /\ WorkerTo("sleep")
  /\ UNCHANGED <<_ws_client, _ws_lock, current_ledger, ledger_time, ut>>
  /\ StoreUntouched
  /\ UNCHANGED last_account_sub
  /\ UNCHANGED connVars

\* `async for` ends on the closed transport: straight to the finally.
WkReadEnds ==
  /\ WorkerAt("read")
  /\ ~ws_open
  /\ WorkerTo("clear")
  /\ UNCHANGED <<_ws_client, _ws_lock, current_ledger, ledger_time, ws_open, ut>>
  /\ StoreUntouched
  /\ UNCHANGED last_account_sub
  /\ UNCHANGED connVars

\* `async for` raises on the closed transport: the except branch.
WkReadRaises ==
  /\ WorkerAt("read")
  /\ ~ws_open
  /\ WorkerTo("sleep")
  /\ UNCHANGED <<_ws_client, _ws_lock, current_ledger, ledger_time, ws_open, ut>>
  /\ StoreUntouched
  /\ UNCHANGED last_account_sub
  /\ UNCHANGED connVars

\* asyncio.sleep(2) returns.
WkSleepDone ==
  /\ WorkerAt("sleep")
  /\ WorkerTo("clear")
  /\ UNCHANGED <<_ws_client, _ws_lock, current_ledger, ledger_time, ws_open, ut>>
  /\ StoreUntouched
  /\ UNCHANGED last_account_sub
  /\ UNCHANGED connVars

\* finally: the client is cleared under the lock, and the loop goes round.
WkClearClient ==
  /\ WorkerAt("clear")
  /\ _ws_lock = "free"
  /\ _ws_client' = "None"
  /\ WorkerTo("connect")
  /\ UNCHANGED <<_ws_lock, current_ledger, ledger_time, ws_open, ut>>
  /\ StoreUntouched
  /\ UNCHANGED last_account_sub
  /\ UNCHANGED connVars

\* The network closes the application's transport.
WsDrop ==
  /\ ws_open
  /\ ws_open' = FALSE
  /\ UNCHANGED <<_ws_client, _ws_lock, current_ledger, ledger_time, wk, ut>>
  /\ StoreUntouched
  /\ UNCHANGED last_account_sub
  /\ UNCHANGED connVars

\* ---- _handle_ws_message
\* The ledgerClosed frames of the node.
LedgerClosedFrames ==
  [type : {"ledgerClosed"}, ledger_index : LedgerIndexes, ledger_hash : LedgerHashes,
   txn_count : TxnCounts, ledger_time : CloseTimes]

\* dt.strftime("%H:%M:%S"): the time of day, in seconds.
TimeOfDay(seconds) == seconds % SecondsPerDay

\* The ledgerClosed branch keeping the highest ledger index seen.
HandleLedgerClosedMonotonic(message) ==
  /\ WorkerAt("read")
  /\ ws_open
  /\ current_ledger' = IF message.ledger_index > current_ledger THEN message.ledger_index
                       ELSE current_ledger
  /\ ledger_time' = IF Truthy(message.ledger_time)
                    THEN Some(TimeOfDay(FromRippleTime(message.ledger_time[1])))
                    ELSE ledger_time
  /\ ledger' = UpdatedLedger(current_ledger', message.ledger_hash, message.ledger_time,
                             message.txn_count)
  /\ UNCHANGED <<_ws_client, _ws_lock, ws_open, wk, ut>>
  /\ UNCHANGED <<storeVars, wallets, lookup>>
  /\ UNCHANGED last_account_sub
  /\ UNCHANGED connVars

\* The ledgerClosed branch: the reactive attributes, then update_ledger;
\* there is no await in it.
HandleLedgerClosed(message) ==
  /\ WorkerAt("read")
  /\ ws_open
  /\ current_ledger' = message.ledger_index
  /\ ledger_time' = IF Truthy(message.ledger_time)
                    THEN Some(TimeOfDay(FromRippleTime(message.ledger_time[1])))
                    ELSE ledger_time
  /\ ledger' = UpdatedLedger(message.ledger_index, message.ledger_hash, message.ledger_time,
                             message.txn_count)
  /\ UNCHANGED <<_ws_client, _ws_lock, ws_open, wk, ut>>
  /\ UNCHANGED <<storeVars, wallets, lookup>>
  /\ UNCHANGED last_account_sub
  /\ UNCHANGED connVars

\* The transaction branch, for a transaction of a tracked account: the
\* worker's own task runs _refresh_account_balances.
HandleTransaction ==
  /\ WorkerAt("read")
  /\ ws_open
  /\ account_addresses # {}
  /\ wk' = [wk EXCEPT !.job = Started("dispatch_refresh", "")]
  /\ UNCHANGED <<_ws_client, _ws_lock, current_ledger, ledger_time, ws_open, ut>>
  /\ StoreUntouched
  /\ UNCHANGED last_account_sub
  /\ UNCHANGED connVars

\* ---- the coroutines started from the keyboard
\* action_refresh, action_faucet_wallet, _submit_payment for a wallet of
\* the store: the task starts and reaches _get_client.
StartJob(t, kind, address) ==
  /\ Job(t).pc = "idle"
  /\ SetJob(t, Started(kind, address))
  /\ UNCHANGED <<_ws_client, _ws_lock, current_ledger, ledger_time, ws_open>>
  /\ StoreUntouched
  /\ UNCHANGED last_account_sub
  /\ UNCHANGED connVars

action_refresh(t) == StartJob(t, "refresh", "")
action_faucet_wallet(t) == StartJob(t, "faucet", "")
submit_payment(t, address) == wallets[address].present /\ StartJob(t, "payment", address)

\* The address is one a faucet task has generated and not yet announced:
\* nobody else has its seed.
BeingCreated(address) ==
  \E t \in AppTasks : ut[t].kind = "faucet" /\ ut[t].pc # "idle" /\ ut[t].address = address

\* on_wallet_imported with the wallet added only inside the block.
on_wallet_imported_in_block(t, address, seed) ==
  /\ Job(t).pc = "idle"
  /\ ~BeingCreated(address)
  /\ SetJob(t, Started("import", address))
  /\ UNCHANGED <<_ws_client, _ws_lock, current_ledger, ledger_time, ws_open>>
  /\ StoreUntouched
  /\ UNCHANGED last_account_sub
  /\ UNCHANGED connVars

\* _on_wallet_imported: add_wallet before the lock is asked for.
on_wallet_imported(t, address, seed) ==
  /\ Job(t).pc = "idle"
  /\ ~BeingCreated(address)
  /\ store_add_wallet(address, seed, "IMPORTED")
  /\ SetJob(t, Started("import", address))
  /\ UNCHANGED <<_ws_client, _ws_lock, current_ledger, ledger_time, ws_open>>
  /\ UNCHANGED last_account_sub
  /\ UNCHANGED connVars

\* The events _on_wallet_imported posts when it ends: WalletCreated always,
\* AccountUpdated when a balance was fetched.
ImportEvents(outcome) ==
  IF outcome = "imported" THEN {"WalletCreated", "AccountUpdated"} ELSE {"WalletCreated"}

\* ---- _get_client and the blocks that use it
\* The job at the first await of its block; _refresh_account_balances has
\* read the addresses to refresh by then.
Entered(j) ==
  [j EXCEPT !.pc = FirstStep(j.kind),
            !.todo = IF FirstStep(j.kind) = "refresh" THEN account_addresses ELSE {}]

\* _get_client entered without the lock.
EnterWithoutLock(t) ==
  /\ Job(t).pc = "acquire"
  /\ IF ClientUsable
     THEN SetJob(t, Entered(Job(t)))
     ELSE SetJob(t, Ended("not_connected"))
  /\ UNCHANGED <<_ws_client, _ws_lock, current_ledger, ledger_time, ws_open>>
  /\ StoreUntouched
  /\ UNCHANGED last_account_sub
  /\ UNCHANGED connVars

\* _get_client: the lock is taken when it is free; with the client set and
\* open the block is entered, holding the lock; otherwise RuntimeError is
\* raised, which releases the lock and ends the coroutine (or, in
\* _on_wallet_imported and _refresh_account_balances, is passed over).
Enter(t) ==
  /\ Job(t).pc = "acquire"
  /\ _ws_lock = "free"
  /\ IF ClientUsable
     THEN /\ _ws_lock' = t
          /\ SetJob(t, Entered(Job(t)))
     ELSE /\ _ws_lock' = "free"
          /\ SetJob(t, Ended("not_connected"))
  /\ UNCHANGED <<_ws_client, current_ledger, ledger_time, ws_open>>
  /\ StoreUntouched
  /\ UNCHANGED last_account_sub
  /\ UNCHANGED connVars

\* An await of the block raising and the lock kept.
RequestFailsKeepsLock(t) ==
  /\ Job(t).pc \in {"generate", "subscribe", "balance", "submit"}
  /\ SetJob(t, Ended("failed"))
  /\ UNCHANGED <<_ws_client, _ws_lock, current_ledger, ledger_time, ws_open>>
  /\ StoreUntouched
  /\ UNCHANGED last_account_sub
  /\ UNCHANGED connVars

\* An await of the block raises (the transport has closed, the node or the
\* faucet answers with an error): the block is left, which releases the
\* lock, and the coroutine's except branch ends it.
RequestFails(t) ==
  /\ Job(t).pc \in {"generate", "subscribe", "balance", "submit"}
  /\ _ws_lock' = "free"
  /\ SetJob(t, Ended("failed"))
  /\ UNCHANGED <<_ws_client, current_ledger, ledger_time, ws_open>>
  /\ StoreUntouched
  /\ UNCHANGED last_account_sub
  /\ UNCHANGED connVars

\* generate_faucet_wallet returns a wallet nobody has seen, and add_wallet
\* follows with no await between.
FaucetGenerated(t, address, seed) ==
  /\ Job(t).pc = "generate"
  /\ ws_open
  /\ ~wallets[address].present
  /\ ~BeingCreated(address)
  /\ store_add_wallet(address, seed, "FAUCET")
  /\ SetJob(t, [Job(t) EXCEPT !.pc = "subscribe", !.address = address])
  /\ UNCHANGED <<_ws_client, _ws_lock, current_ledger, ledger_time, ws_open>>
  /\ UNCHANGED last_account_sub
  /\ UNCHANGED connVars

\* client.send(Subscribe(accounts=[address])) returns.
AccountSubscribed(t) ==
  /\ Job(t).pc = "subscribe"
  /\ ws_open
  /\ SetJob(t, [Job(t) EXCEPT !.pc = "balance"])
  /\ UNCHANGED <<_ws_client, _ws_lock, current_ledger, ledger_time, ws_open>>
  /\ StoreUntouched
  /\ last_account_sub' = "live"
  /\ UNCHANGED connVars

\* BalanceFetched with the balance not stored.
BalanceFetchedNotStored(t, balance) ==
  /\ Job(t).pc = "balance"
  /\ ws_open
  /\ _ws_lock' = "free"
  /\ SetJob(t, Ended(IF Job(t).kind = "faucet" THEN "created" ELSE "imported"))
  /\ UNCHANGED <<_ws_client, current_ledger, ledger_time, ws_open>>
  /\ StoreUntouched
  /\ UNCHANGED last_account_sub
  /\ UNCHANGED connVars

\* get_balance returns, update_account_balance stores the balance, and the
\* block is left, with no await after the one of get_balance.
BalanceFetched(t, balance) ==
  /\ Job(t).pc = "balance"
  /\ ws_open
  /\ store_update_account_balance(Job(t).address, balance)
  /\ _ws_lock' = "free"
  /\ SetJob(t, Ended(IF Job(t).kind = "faucet" THEN "created" ELSE "imported"))
  /\ UNCHANGED <<_ws_client, current_ledger, ledger_time, ws_open>>
  /\ UNCHANGED last_account_sub
  /\ UNCHANGED connVars

\* _refresh_account_balances, one address: get_balance returns and
\* update_account_balance stores the balance.
RefreshOne(t, address, balance) ==
  /\ Job(t).pc = "refresh"
  /\ address \in Job(t).todo
  /\ ws_open
  /\ store_update_account_balance(address, balance)
  /\ SetJob(t, [Job(t) EXCEPT !.todo = @ \ {address}])
  /\ UNCHANGED <<_ws_client, _ws_lock, current_ledger, ledger_time, ws_open>>
  /\ UNCHANGED last_account_sub
  /\ UNCHANGED connVars

\* _refresh_account_balances, one address: get_balance raises, and the
\* loop goes on.
RefreshSkip(t, address) ==
  /\ Job(t).pc = "refresh"
  /\ address \in Job(t).todo
  /\ SetJob(t, [Job(t) EXCEPT !.todo = @ \ {address}])
  /\ UNCHANGED <<_ws_client, _ws_lock, current_ledger, ledger_time, ws_open>>
  /\ StoreUntouched
  /\ UNCHANGED last_account_sub
  /\ UNCHANGED connVars

\* _refresh_account_balances: the loop is over and the block is left.
RefreshDone(t) ==
  /\ Job(t).pc = "refresh"
  /\ Job(t).todo = {}
  /\ _ws_lock' = "free"
  /\ SetJob(t, Ended("refreshed"))
  /\ UNCHANGED <<_ws_client, current_ledger, ledger_time, ws_open>>
  /\ StoreUntouched
  /\ UNCHANGED last_account_sub
  /\ UNCHANGED connVars

\* PaymentValidated with the refresh called inside the block.
PaymentValidatedInsideBlock(t) ==
  /\ Job(t).pc = "submit"
  /\ ws_open
  /\ SetJob(t, Started("payment_refresh", ""))
  /\ UNCHANGED <<_ws_client, _ws_lock, current_ledger, ledger_time, ws_open>>
  /\ StoreUntouched
  /\ UNCHANGED last_account_sub
  /\ UNCHANGED connVars

\* submit_and_wait returns: the block is left, and the task goes on to
\* _refresh_account_balances, which asks for the lock again.
PaymentValidated(t) ==
  /\ Job(t).pc = "submit"
  /\ ws_open
  /\ _ws_lock' = "free"
  /\ SetJob(t, Started("payment_refresh", ""))
  /\ UNCHANGED <<_ws_client, current_ledger, ledger_time, ws_open>>
  /\ StoreUntouched
  /\ UNCHANGED last_account_sub
  /\ UNCHANGED connVars

\* ------------------------------------------------------ specifications
AllIdle == \A t \in Callers : tk[t].st = "idle"

\* The supervisor against the transport, with one caller's task using the
\* tracker; no callback is registered.
Next ==
  \/ Connect
  \/ Disconnect
  \/ OpenOk
  \/ OpenFails(MaxFlaps)
  \/ SleepDone
  \/ DispatchDone
  \/ RestoreSend
  \/ RestoreSkip
  \/ RestoreSendFails(MaxFlaps)
  \/ RestoreDone
  \/ ReadEnds
  \/ ReadRaises(MaxFlaps)
  \/ NetDrop
  \/ \E t \in FirstCaller : Caller(t)

Spec == Init /\ [][Next]_vars

\* One caller's calls when no send is cut short by a drop.
CallerCalm(t) ==
  \/ \E s \in Streams : subscribe_stream(t, s)
  \/ \E s \in Streams : unsubscribe_stream(t, s)
  \/ \E l \in AddrLists : subscribe_accounts(t, l)
  \/ \E a \in Accounts : unsubscribe_account(t, a)
  \/ unsubscribe_all(t)
  \/ SendReturns(t)
  \/ CallerMovesOn(t)

\* The same, with the transport dropping only between the caller's calls:
\* every call is made, and is over, while connected.
NextCalm ==
  \/ Connect
  \/ Disconnect
  \/ OpenOk
  \/ OpenFails(MaxFlaps)
  \/ SleepDone
  \/ DispatchDone
  \/ RestoreSend
  \/ RestoreDone
  \/ ReadEnds
  \/ ReadRaises(MaxFlaps)
  \/ AllIdle /\ NetDrop
  \/ \E t \in FirstCaller : CallerCalm(t)

SpecCalm == Init /\ [][NextCalm]_vars

\* The supervisor against the transport and the node's frames, through long
\* runs of failures, with one caller's task calling send and request.
NextConn ==
  \/ Connect
  \/ Disconnect
  \/ OpenOk
  \/ OpenFails(MaxFailures)
  \/ SleepDone
  \/ DispatchDone
  \/ RestoreSend
  \/ RestoreSkip
  \/ RestoreSendFails(MaxFailures)
  \/ RestoreDone
  \/ ReadFrame
  \/ ReadFrameStopped
  \/ ReadEnds
  \/ ReadRaises(MaxFailures)
  \/ NodeFrame
  \/ NetDrop
  \/ \E t \in FirstCaller, track \in BOOLEAN : Send(t, track)
  \/ \E t \in FirstCaller : Request(t)
  \/ \E t \in FirstCaller : SendReturns(t)
  \/ \E t \in FirstCaller : SendRaises(t)
  \/ \E t \in FirstCaller : CallerMovesOn(t)

SpecConn == Init /\ [][NextConn]_vars

\* The supervisor against the transport and the node's frames, with
\* callbacks registered at any time and removed between dispatches.
NextDispatch ==
  \/ Connect
  \/ Disconnect
  \/ OpenOk
  \/ OpenFails(MaxFlaps)
  \/ SleepDone
  \/ DispatchCallback
  \/ DispatchDone
  \/ RestoreDone
  \/ ReadFrame
  \/ ReadFrameStopped
  \/ ReadEnds
  \/ ReadRaises(MaxFlaps)
  \/ NodeFrame
  \/ NetDrop
  \/ \E c \in CallbackIds : on_message(c)
  \/ \E c \in CallbackIds : pc # "dispatch" /\ remove_message_callback(c)

SpecDispatch == Init /\ [][NextDispatch]_vars

\* The dispatch of frames to callbacks that register or remove callbacks
\* while they run: each callback is registered at most once at a time.
NextMutate ==
  \/ Connect
  \/ OpenOk
  \/ DispatchCallback
  \/ DispatchDone
  \/ RestoreDone
  \/ ReadFrame
  \/ NodeFrame
  \/ \E c \in CallbackIds : c \notin Range(_message_callbacks) /\ on_message(c)
  \/ \E c \in CallbackIds : remove_message_callback(c)

SpecMutate == Init /\ [][NextMutate]_vars

\* The connect() task's own steps: what the event loop runs whenever the
\* task can go on.  The transport's and the node's steps (a frame arriving,
\* a drop, an open succeeding or failing) are not among them.
SupervisorStep ==
  \/ SleepDone
  \/ DispatchDone
  \/ RestoreDone
  \/ ReadFrame
  \/ ReadFrameStopped
  \/ ReadEnds

\* The supervisor against the transport and the node's frames, started and
\* stopped; the event loop runs the connect() task whenever it can go on,
\* and an open attempt ends, one way or the other.
NextLive ==
  \/ Connect
  \/ Disconnect
  \/ OpenOk
  \/ OpenFails(MaxFailures)
  \/ SleepDone
  \/ DispatchDone
  \/ RestoreDone
  \/ ReadFrame
  \/ ReadFrameStopped
  \/ ReadEnds
  \/ ReadRaises(MaxFailures)
  \/ NodeFrame
  \/ NetDrop

SpecLive ==
  /\ Init
  /\ [][NextLive]_vars
  /\ WF_vars(SupervisorStep)
  /\ WF_vars(OpenOk \/ OpenFails(MaxFailures))

\* The store's transaction methods called in any order, on any of a few
\* hashes, so that a hash is used again; the lists stay short.
NextStore ==
  \/ \E h \in 1..MaxHashes :
       Len(pending_transactions) < MaxPendingTx /\ add_pending_transaction(h)
  \/ \E h \in 1..MaxHashes, l \in LedgerIndexes :
       Len(recent_transactions) < MaxHistory /\ mark_transaction_validated(h, l)
  \/ \E h \in 1..MaxHashes, e \in Errors :
       Len(recent_transactions) < MaxHistory /\ mark_transaction_failed(h, e)
  \/ \E h \in 1..MaxHashes, l \in LedgerIndexes :
       Len(recent_transactions) < MaxHistory /\ add_received_transaction(h, l)

SpecStore == Init /\ [][NextStore]_vars

\* The history so far was filled in the order the hashes were created.
InOrder == \A i \in 1..Len(inserted) : inserted[i] = i

\* A transaction may be received: none is pending, or the pending one is
\* the first to be validated late and is not yet MaxDelay behind.
MayReceive ==
  \/ pending_transactions = <<>>
  \/ /\ pending_transactions # <<>>
     /\ InOrder
     /\ tx_count - pending_transactions[1].tx_hash < MaxDelay

\* Distinct transactions, numbered as they are created, put into
\* recent-history by add_received_transaction or by add_pending_transaction
\* and mark_transaction_validated, until the history has been filled past
\* its capacity.  Each is validated in the ledger of its own number.
NextHistory ==
  \/ /\ tx_count < MaxInserts
     /\ pending_transactions = <<>>
     /\ add_pending_transaction(tx_count + 1)
  \/ /\ pending_transactions # <<>>
     /\ mark_transaction_validated(pending_transactions[1].tx_hash, pending_transactions[1].tx_hash)
  \/ /\ tx_count < MaxInserts
     /\ MayReceive
     /\ add_received_transaction(tx_count + 1, tx_count + 1)

SpecHistory == Init /\ [][NextHistory]_vars

\* The failed transactions in the history.
FailedInHistory ==
  Cardinality({i \in 1..Len(recent_transactions) : recent_transactions[i].status = "FAILED"})

\* The same, one transaction at a time, where a pending transaction may
\* also fail.
NextRetention ==
  \/ /\ tx_count < MaxInserts
     /\ pending_transactions = <<>>
     /\ add_pending_transaction(tx_count + 1)
  \/ /\ pending_transactions # <<>>
     /\ mark_transaction_validated(pending_transactions[1].tx_hash, pending_transactions[1].tx_hash)
  \/ /\ pending_transactions # <<>>
     /\ FailedInHistory < MaxFailedTx
     /\ \E e \in Errors : mark_transaction_failed(pending_transactions[1].tx_hash, e)
  \/ /\ tx_count < MaxInserts
     /\ pending_transactions = <<>>
     /\ add_received_transaction(tx_count + 1, tx_count + 1)

SpecRetention == Init /\ [][NextRetention]_vars

\* update_account_balance called with any balance on any address.
NextAccounts == \E a \in Accounts, b \in Balances : update_account_balance(a, b)

SpecAccounts == Init /\ [][NextAccounts]_vars

\* Wallets added, added again and removed, and each address's balance
\* updated once.
NextWallets ==
  \/ \E a \in Accounts, k \in Seeds, src \in WalletSource : add_wallet(a, k, src)
  \/ \E a \in Accounts : wallets[a].present /\ remove_wallet(a)
  \/ \E a \in Accounts, b \in Balances : balance_log[a] = <<>> /\ update_account_balance(a, b)

SpecWallets == Init /\ [][NextWallets]_vars

\* The supervisor against the transport, with the tasks of a set calling
\* the tracker's subscribe operations and nothing else.
Subscribing(tasks) ==
  \/ Connect
  \/ OpenOk
  \/ OpenFails(MaxFlaps)
  \/ SleepDone
  \/ DispatchDone
  \/ RestoreSend
  \/ RestoreSkip
  \/ RestoreSendFails(MaxFlaps)
  \/ RestoreDone
  \/ ReadEnds
  \/ ReadRaises(MaxFlaps)
  \/ NetDrop
  \/ \E t \in tasks, s \in Streams : subscribe_stream(t, s)
  \/ \E t \in tasks, l \in AddrLists : subscribe_accounts(t, l)
  \/ \E t \in tasks : SendReturns(t)
  \/ \E t \in tasks : SendRaises(t)
  \/ \E t \in tasks : CallerMovesOn(t)

\* One task subscribing, with every failure a subscribe can meet.
NextSubscribe == Subscribing(FirstCaller)

SpecSubscribe == Init /\ [][NextSubscribe]_vars

\* Two tasks subscribing at the same time.
NextRace == Subscribing(Callers)

SpecRace == Init /\ [][NextRace]_vars

\* The five methods that keep the wallets and the accounts, called in any
\* order; each address's balance is updated once.
NextBook ==
  \/ \E a \in Accounts, k \in Seeds, src \in WalletSource : add_wallet(a, k, src)
  \/ \E a \in Accounts : remove_wallet(a)
  \/ \E a \in Accounts, b \in {None, Some(100000000)} : add_account(a, b)
  \/ \E a \in Accounts : remove_account(a)
  \/ \E a \in Accounts, b \in Balances : balance_log[a] = <<>> /\ update_account_balance(a, b)

SpecBook == Init /\ [][NextBook]_vars

\* The store's transaction methods called in any order, and then one
\* get_transaction.
NextLookup ==
  \/ lookup = NoLookup /\ NextStore
  \/ \E h \in 1..MaxHashes : lookup = NoLookup /\ get_transaction(h)

SpecLookup == Init /\ [][NextLookup]_vars

\* The connection worker's loop against the network.
WorkerStep ==
  \/ WkOpenOk
  \/ WkOpenFails
  \/ WkSetClient
  \/ WkSubscribed
  \/ WkSubscribeFails
  \/ WkReadEnds
  \/ WkReadRaises
  \/ WkSleepDone
  \/ WkClearClient
  \/ WsDrop

\* The worker handling the node's ledgerClosed frames, and update_ledger
\* called on the store with any arguments.
NextLedger ==
  \/ WorkerStep
  \/ \E message \in LedgerClosedFrames : HandleLedgerClosed(message)
  \/ \E i \in LedgerIndexes, h \in LedgerHashes, c \in CloseTimes, n \in TxnCounts :
       update_ledger(i, h, c, n)

SpecLedger == Init /\ [][NextLedger]_vars

\* The number of update_account_balance calls so far.
RECURSIVE UpdatesOf(_)
UpdatesOf(S) ==
  IF S = {} THEN 0
  ELSE LET a == CHOOSE x \in S : TRUE IN Len(balance_log[a]) + UpdatesOf(S \ {a})

MayFetch == UpdatesOf(Accounts) < MaxFetches

\* The worker, the transactions of tracked accounts it is told of, and the
\* coroutines started from the keyboard, one at a time, on a task that runs
\* beside the worker's; the node answers a few balance requests, and fails
\* the others.
NextApp ==
  \/ WorkerStep
  \/ HandleTransaction
  \/ \E t \in AppTasks : action_refresh(t)
  \/ \E t \in AppTasks : action_faucet_wallet(t)
  \/ \E t \in AppTasks, a \in Accounts : submit_payment(t, a)
  \/ \E t \in AppTasks, a \in Accounts : on_wallet_imported(t, a, "s2")
  \/ \E t \in Tasks : Enter(t)
  \/ \E t \in AppTasks : RequestFails(t)
  \/ \E t \in AppTasks, a \in Accounts : FaucetGenerated(t, a, "s1")
  \/ \E t \in AppTasks : AccountSubscribed(t)
  \/ \E t \in AppTasks, b \in Balances \ {0} : MayFetch /\ BalanceFetched(t, b)
  \/ \E t \in Tasks, a \in Accounts, b \in Balances \ {0} : MayFetch /\ RefreshOne(t, a, b)
  \/ \E t \in Tasks, a \in Accounts : RefreshSkip(t, a)
  \/ \E t \in Tasks : RefreshDone(t)
  \/ \E t \in AppTasks : PaymentValidated(t)

SpecApp == Init /\ [][NextApp]_vars

\* The worker and a keyboard task refreshing the balances while the user
\* adds wallets to the store and removes accounts from it (the accounts
\* panel's remove action calls the store at once, asking for no lock).
NextRemoval ==
  \/ WorkerStep
  \/ HandleTransaction
  \/ \E t \in AppTasks : action_refresh(t)
  \/ \E t \in Tasks : Enter(t)
  \/ \E t \in Tasks, a \in Accounts, b \in Balances \ {0} : MayFetch /\ RefreshOne(t, a, b)
  \/ \E t \in Tasks, a \in Accounts : RefreshSkip(t, a)
  \/ \E t \in Tasks : RefreshDone(t)
  \/ \E a \in Accounts : ~wallets[a].present /\ add_wallet(a, "s2", "IMPORTED")
  \/ \E a \in Accounts : accounts[a].present /\ remove_account(a)

SpecRemoval == Init /\ [][NextRemoval]_vars

\* ------------------------------------------------------------- claims
\* The streams and accounts of the Subscribe requests the transport has
\* carried, sent the given way.
SubscribedOnLink(via) ==
  LET reqs == {e.req : e \in {x \in BagToSet(wire) : x.via = via /\ x.req.kind = "Subscribe"}}
  IN  [streams |-> UNION {Range(r.streams) : r \in reqs},
       accounts |-> UNION {Range(r.accounts) : r \in reqs}]

\* The supervisor has replayed and reads frames on an open transport.
Reestablished == pc = "read" /\ is_connected

\* C1: once the supervisor has (re)established a connection and replayed,
\* every stream and account the tracker holds has gone out on the new
\* transport in a Subscribe request: in a replayed one, unless a caller
\* subscribed it on this very transport.
C1_ReplayCoversSubscribed ==
  Reestablished =>
    /\ _subscribed_streams \subseteq
         SubscribedOnLink("replay").streams \cup SubscribedOnLink("send").streams
    /\ _subscribed_accounts \subseteq
         SubscribedOnLink("replay").accounts \cup SubscribedOnLink("send").accounts

\* C1's case: the tracker holds stream "ledger" and account "rABC", the
\* connection has been re-established, both were replayed, and no caller
\* has sent anything on the new transport.
C1_Witness ==
  /\ Reestablished
  /\ AllIdle
  /\ "ledger" \in _subscribed_streams
  /\ "rABC" \in _subscribed_accounts
  /\ "ledger" \in SubscribedOnLink("replay").streams
  /\ "rABC" \in SubscribedOnLink("replay").accounts
  /\ \A e \in BagToSet(wire) : e.via = "replay"

\* C2: after calls made while connected, a drop and a reconnect, the
\* streams and accounts of the replayed Subscribe requests are exactly the
\* tracker's sets (no caller has sent anything on the new transport).
C2_ReplayIsSubscribed ==
  (Reestablished /\ AllIdle /\ \A e \in BagToSet(wire) : e.via = "replay") =>
    /\ SubscribedOnLink("replay").streams = _subscribed_streams
    /\ SubscribedOnLink("replay").accounts = _subscribed_accounts

\* The delay of the k-th consecutive failure: 1, 2, 4, 8, 16, 30, 30, ...
Backoff(k) == Min(2 ^ (k - 1), 30)

\* The connect loop is about to sleep, or sleeps.
Sleeping == pc = "sleep" \/ (pc = "dispatch" /\ ret = "sleep")

\* C3: the delay slept after the k-th consecutive failure since the last
\* successful connection (or since connect() started) is min(2^(k-1), 30);
\* so it is 1 on the first failure after a success.
C3_BackoffSequence == Sleeping => _reconnect_delay = Backoff(fails)

\* C3's case: the seventh consecutive failure sleeps the capped delay.
C3_Witness == pc = "sleep" /\ fails = 7 /\ _reconnect_delay = 30

\* C4: when an established connection ends and no stop was requested, the
\* supervisor's next state is RECONNECTING.
C4_DropReconnects ==
  [][(_state = "CONNECTED" /\ _state' # "CONNECTED" /\ _should_run)
       => _state' = "RECONNECTING"]_vars

\* disconnect() was called while the supervisor is connected and waits for
\* the next frame, and the transport holds none.
C5_StoppedWhileReading == pc = "read" /\ is_connected /\ ~_should_run /\ inbox = <<>>

\* C5: after disconnect() while connected and waiting for a frame, the
\* connect loop goes on to release the transport and exit without a frame
\* arriving: with no frame in the transport, the connect() task has a step
\* to take.
C5_StopNeedsNoFrame == C5_StoppedWhileReading => ENABLED SupervisorStep

\* A caller's task starts a call of send or request in this step.
CallsConnection(t) ==
  /\ tk[t].st = "idle"
  /\ tk'[t].st # "idle"
  /\ tk'[t].op \in {"send", "send_tracked", "request"}

\* The call raised NotConnected at once: nothing sent, nothing queued.
RaisesNotConnected(t) ==
  /\ tk'[t].st = "returned"
  /\ tk'[t].res = "NotConnected"
  /\ wire' = wire
  /\ _pending_subscriptions' = _pending_subscriptions

\* C6: a call of send or request made when no transport is open raises
\* NotConnected in the same step, and leaves the transport's log and the
\* replay list as they were, tracked or not.
C6_NotConnectedRaises ==
  [][\A t \in Callers : (CallsConnection(t) /\ ~(_client = "Client" /\ link_open))
       => RaisesNotConnected(t)]_vars

\* C6's case: a tracked send raised NotConnected and the replay list is
\* still empty.
C6_Witness ==
  \E t \in Callers :
    /\ tk[t].st = "returned"
    /\ tk[t].op = "send_tracked"
    /\ tk[t].res = "NotConnected"
    /\ _pending_subscriptions = <<>>

\* C7: while _state is not CONNECTED, a call of send or request raises
\* NotConnected, no request goes out on a transport, and none is queued.
C7_NotConnectedState ==
  [][_state # "CONNECTED" =>
       /\ \A t \in Callers : CallsConnection(t) => RaisesNotConnected(t)
       /\ BagCardinality(wire') <= BagCardinality(wire)
       /\ Len(_pending_subscriptions') <= Len(_pending_subscriptions)]_vars

\* C7's case: a request made in RECONNECTING, with the closed client still
\* referenced, raised NotConnected.
C7_Witness ==
  \E t \in Callers :
    /\ _state = "RECONNECTING"
    /\ _client = "Client"
    /\ tk[t].st = "returned"
    /\ tk[t].op = "request"
    /\ tk[t].res = "NotConnected"

\* The callbacks called so far in the dispatch, in the order of the calls.
DeliveredTo == [i \in 1..Len(delivered) |-> delivered[i].cb]

\* C8: a dispatch ends only when every registered callback has been called
\* with the message, in registration order; a callback that raises leaves
\* the loop where a returning one does (at the next callback), and at the
\* end the caller continues (the read loop, for a frame).
C8_DispatchIsolatesFailures ==
  [][/\ (pc = "dispatch" /\ pc' # "dispatch")
          => (DeliveredTo = _message_callbacks /\ pc' = ret)
     /\ (pc = "dispatch" /\ Len(delivered') > Len(delivered))
          => (pc' = "dispatch" /\ cb_idx' = cb_idx + 1 /\ Len(delivered') = cb_idx
              /\ ret' = ret /\ msg' = msg)]_vars

\* C8's case: the first callback raised on a frame and the second one was
\* called with it all the same.
C8_Witness ==
  /\ pc = "dispatch"
  /\ msg.type = "frame"
  /\ ret = "read"
  /\ Len(delivered) = 2
  /\ delivered[1].raised
  /\ delivered[1].cb # delivered[2].cb

\* C9: the frames a callback is handed carry increasing numbers of the
\* node's sending order, each the frame being dispatched; and a dispatch
\* starts only when none is in progress.
C9_FramesInOrder ==
  [][/\ \A c \in CallbackIds : last_frame'[c] # last_frame[c]
          => (last_frame'[c] > last_frame[c] /\ msg.type = "frame"
              /\ last_frame'[c] = msg.seq)
     /\ msg' # msg => (pc # "dispatch" /\ delivered = <<>>)]_vars

\* C9's case: the second frame is about to be handed to a callback that
\* was handed the first.
C9_Witness ==
  /\ pc = "dispatch"
  /\ msg = Frame(2)
  /\ cb_idx <= Len(_message_callbacks)
  /\ last_frame[_message_callbacks[cb_idx]] = 1
  /\ inbox # <<>>

\* C10: a step that changes _state starts the dispatch of the
\* '__connection_state__' message carrying the new state (which no frame's
\* type equals); _state does not change again while that dispatch runs, and
\* the dispatch ends only when every registered callback was called with it.
C10_StateChangeNotified ==
  [][/\ _state' # _state
          => (pc' = "dispatch" /\ msg' = StateMessage(_state') /\ cb_idx' = 1
              /\ delivered' = <<>> /\ msg'.type # Frame(1).type)
     /\ pc = "dispatch" => _state' = _state
     /\ (pc = "dispatch" /\ msg.type = "__connection_state__")
          => (msg.state = _state
              /\ (pc' # "dispatch" => DeliveredTo = _message_callbacks))]_vars

\* C10's case: the RECONNECTING message has been handed to two callbacks.
C10_Witness ==
  /\ pc = "dispatch"
  /\ _state = "RECONNECTING"
  /\ msg = StateMessage("RECONNECTING")
  /\ Len(delivered) = 2
  /\ cb_idx > Len(_message_callbacks)

\* C11: whatever the interleaving of the connect loop with callers' send
\* and request calls, at most one transport is open at a time, a transport
\* is opened only when the one before it has been released, and a request
\* goes out only on the open transport the client refers to, never on a
\* closed one.
C11_OneLiveTransport ==
  [][/\ open_transports' <= 1
     /\ open_transports' > open_transports => (open_transports = 0 /\ ~link_open)
     /\ BagCardinality(wire') > BagCardinality(wire)
          => (link_open /\ link_open' /\ _client = "Client")]_vars

\* C11's case: a caller's send is still in flight on a transport that has
\* closed under it, and the replacement transport is already open.
C11_Witness ==
  \E t \in Callers :
    /\ tk[t].st = "sending"
    /\ ~tk[t].live
    /\ link_open
    /\ open_transports = 1

\* The call did nothing: it returned at once, and the tracker's sets, the
\* replay list and the transport's log are as they were.
NoOpCall(t) ==
  /\ tk'[t].st = "returned"
  /\ tk'[t].res = "noop"
  /\ UNCHANGED <<wire, _pending_subscriptions, _subscribed_streams, _subscribed_accounts>>

\* The call handed exactly this request to send, tracked for replay (or was
\* refused by send because the transport is not open).
SendsTracked(t, req) ==
  \/ /\ tk'[t].st = "sending"
     /\ tk'[t].req = req
     /\ _pending_subscriptions' = Append(_pending_subscriptions, req)
  \/ /\ tk'[t].st = "returned"
     /\ tk'[t].res = "NotConnected"
     /\ UNCHANGED _pending_subscriptions

\* C12: subscribing is idempotent and incremental.  A subscribe call for a
\* stream, or for addresses, that are all in the tracker's set already does
\* nothing; otherwise the call hands send one Subscribe request naming
\* exactly the stream, or exactly the addresses of the list not subscribed
\* yet; and when that send returns, one request has gone out and the
\* tracker's set holds what it named.
C12_SubscribeIncremental ==
  [][\A t \in Callers :
       /\ \A s \in Streams : subscribe_stream(t, s) =>
             IF s \in _subscribed_streams THEN NoOpCall(t)
             ELSE SendsTracked(t, Subscribe(<<s>>, <<>>))
       /\ \A l \in AddrLists : subscribe_accounts(t, l) =>
             IF Range(l) \subseteq _subscribed_accounts THEN NoOpCall(t)
             ELSE /\ \E r \in {tk'[t].req} : SendsTracked(t, r)
                  /\ tk'[t].req.kind = "Subscribe"
                  /\ tk'[t].req.streams = <<>>
                  /\ Range(tk'[t].req.accounts) = Range(l) \ _subscribed_accounts
       /\ (SendReturns(t) /\ tk[t].op \in {"subscribe_stream", "subscribe_accounts"}) =>
            /\ BagCardinality(wire') = BagCardinality(wire) + 1
            /\ Range(tk[t].req.streams) \subseteq _subscribed_streams'
            /\ Range(tk[t].req.accounts) \subseteq _subscribed_accounts']_vars

\* C12's case: "rABC" was subscribed, then "rDEF": two requests went out,
\* the second naming only "rDEF", and both are tracked for replay.
C12_Witness ==
  /\ _subscribed_accounts = {"rABC", "rDEF"}
  /\ _pending_subscriptions = <<Subscribe(<<>>, <<"rABC">>), Subscribe(<<>>, <<"rDEF">>)>>
  /\ wire = SetToBag({[req |-> Subscribe(<<>>, <<"rABC">>), via |-> "send"],
                       [req |-> Subscribe(<<>>, <<"rDEF">>), via |-> "send"]})

\* The call handed exactly this request to send, not tracked for replay (or
\* was refused by send because the transport is not open).
SendsUntracked(t, req) ==
  /\ UNCHANGED _pending_subscriptions
  /\ \/ tk'[t].st = "sending" /\ tk'[t].req = req
     \/ tk'[t].st = "returned" /\ tk'[t].res = "NotConnected"

\* C13: unsubscribing a stream or an account that is not subscribed does
\* nothing and raises nothing.  Unsubscribing one that is subscribed hands
\* send one Unsubscribe request naming it, which is not added to the replay
\* list; when that send returns, exactly that request has gone out and the
\* entry, and nothing else, has left the tracker's set.
C13_UnsubscribeRemoves ==
  [][\A t \in Callers :
       /\ \A s \in Streams : unsubscribe_stream(t, s) =>
             IF s \notin _subscribed_streams THEN NoOpCall(t)
             ELSE SendsUntracked(t, Unsubscribe(<<s>>, <<>>))
       /\ \A a \in Accounts : unsubscribe_account(t, a) =>
             IF a \notin _subscribed_accounts THEN NoOpCall(t)
             ELSE SendsUntracked(t, Unsubscribe(<<>>, <<a>>))
       /\ (SendReturns(t) /\ tk[t].op \in {"unsubscribe_stream", "unsubscribe_account"}) =>
            /\ wire' = wire (+) SetToBag({[req |-> tk[t].req, via |-> "send"]})
            /\ UNCHANGED _pending_subscriptions
            /\ _subscribed_streams' = _subscribed_streams \ Range(tk[t].req.streams)
            /\ _subscribed_accounts' = _subscribed_accounts \ Range(tk[t].req.accounts)
            /\ tk'[t].res = "ok"]_vars

\* C13's case: of the two subscribed accounts "rABC" was unsubscribed: its
\* Unsubscribe went out, "rDEF" is still subscribed, and the replay list
\* holds the Subscribe request only.
C13_Witness ==
  \E t \in Callers :
    /\ tk[t] = Returned("unsubscribe_account", Unsubscribe(<<>>, <<"rABC">>), "ok")
    /\ _subscribed_accounts = {"rDEF"}
    /\ _pending_subscriptions = <<Subscribe(<<>>, <<"rABC", "rDEF">>)>>
    /\ [req |-> Unsubscribe(<<>>, <<"rABC">>), via |-> "send"] \in BagToSet(wire)

\* The caller's unsubscribe_all() call is over, by a return or by an
\* exception.
UnsubscribeAllOver(t) ==
  /\ tk[t].st = "returned"
  /\ tk[t].op \in {"unsubscribe_all", "unsubscribe_all_streams", "unsubscribe_all_accounts"}

\* C14: when a call of unsubscribe_all() is over, in whatever state it was
\* made, both of the tracker's sets and the supervisor's replay list are
\* empty.
C14_UnsubscribeAllClears ==
  \A t \in Callers :
    UnsubscribeAllOver(t) =>
      /\ _subscribed_streams = {}
      /\ _subscribed_accounts = {}
      /\ _pending_subscriptions = <<>>

\* The number of records with the hash in a list of transactions.
HashCount(txs, h) == Cardinality({i \in 1..Len(txs) : txs[i].tx_hash = h})

\* C15: when a hash that was added as pending, and has no other record, is
\* marked validated, its record is moved: it is at the front of
\* recent-history, with status VALIDATED and the given ledger index, it is
\* in recent-history once and in the pending set no more.
C15_PendingMovesToHistory ==
  [][\A h \in 1..MaxHashes, l \in LedgerIndexes :
       (/\ mark_transaction_validated(h, l)
        /\ HashCount(pending_transactions, h) = 1
        /\ HashCount(recent_transactions, h) = 0)
       => /\ recent_transactions'[1] = [tx_hash |-> h, status |-> "VALIDATED",
                                        ledger_index |-> Some(l), error_message |-> None]
          /\ HashCount(recent_transactions', h) = 1
          /\ HashCount(pending_transactions', h) = 0
          /\ Len(pending_transactions') = Len(pending_transactions) - 1]_vars

\* C15's case: hash 1 was added as pending, hash 2 was received and added
\* as pending in between, then hash 1 was validated in ledger 8.
C15_Witness ==
  /\ store_op = StoreCall("mark_transaction_validated", 1)
  /\ Len(recent_transactions) = 2
  /\ recent_transactions[1] = mark_validated(TransactionState(1, "PENDING", None), 8)
  /\ recent_transactions[2].tx_hash = 2
  /\ pending_transactions = <<TransactionState(2, "PENDING", None)>>

\* The last call on the store was a mark of a hash.
MarkCalled(h) ==
  /\ store_op' # store_op
  /\ store_op'.op \in {"mark_transaction_validated", "mark_transaction_failed"}
  /\ store_op'.tx_hash = h

\* C16: marking a hash validated or failed when no pending transaction has
\* it returns normally and changes neither the pending set nor
\* recent-history, whatever record of that hash the history holds.
C16_MarkOfUnknownIsNoOp ==
  [][\A h \in 1..MaxHashes :
       (MarkCalled(h) /\ HashCount(pending_transactions, h) = 0)
       => /\ UNCHANGED <<pending_transactions, recent_transactions>>
          /\ store_op'.result = "returned"]_vars

\* C16's case: hash 1 failed and is in the history; a validation notice for
\* it came afterwards and the record is still the failed one, alone.
C16_Witness ==
  /\ store_op = StoreCall("mark_transaction_validated", 1)
  /\ HashCount(pending_transactions, 1) = 0
  /\ Len(recent_transactions) = 1
  /\ recent_transactions[1].tx_hash = 1
  /\ recent_transactions[1].status = "FAILED"

\* C19: at most one record per hash exists across the pending set and
\* recent-history together.
C19_OneRecordPerHash ==
  \A h \in 1..MaxHashes :
    HashCount(pending_transactions, h) + HashCount(recent_transactions, h) <= 1

\* C17: after k distinct transactions have been put into recent-history by
\* mark_transaction_validated or add_received_transaction, the history
\* holds min(k, 50) records: the most recently inserted ones, the most
\* recent first.
C17_HistoryRetention ==
  LET k == Len(inserted)
      n == Min(k, max_recent_transactions)
  IN  /\ Len(recent_transactions) = n
      /\ \A i \in 1..n : recent_transactions[i].tx_hash = inserted[k - i + 1]

\* C17's case: 60 transactions were inserted, one of them validated late,
\* and the history holds the last 50.
C17_Witness ==
  /\ Len(inserted) = 60
  /\ ~InOrder
  /\ Len(recent_transactions) = 50
  /\ recent_transactions[1].tx_hash = inserted[60]
  /\ recent_transactions[50].tx_hash = inserted[11]

\* C18: recent-history never holds more than max_recent_transactions
\* records, whichever operation inserted them.
C18_HistoryBounded == Len(recent_transactions) <= max_recent_transactions

\* C20: for the balances B1, ..., Bk passed to update_account_balance for an
\* address so far: the account's balance is Bk; after the first call on the
\* unknown address previous_balance and balance_change are None; after a
\* later call previous_balance is B(k-1) and balance_change is Bk - B(k-1)
\* in drops.
C20_PreviousIsImmediatelyPrior ==
  \A a \in Accounts :
    LET log == balance_log[a]
        k == Len(log)
    IN  /\ k = 0 => ~accounts[a].present
        /\ k >= 1 => (accounts[a].present /\ accounts[a].balance = log[k])
        /\ k = 1 => (accounts[a].previous_balance = None /\ balance_change(accounts[a]) = None)
        /\ k > 1 => /\ accounts[a].previous_balance = Some(log[k - 1])
                    /\ balance_change(accounts[a]) = Some(log[k] - log[k - 1])

\* C20's case: 0, then 100_000_000, then 100_500_000 drops: the change is
\* +500_000 and the previous balance is not the first one.
C20_Witness ==
  /\ balance_log["rABC"] = <<0, 100000000, 100500000>>
  /\ accounts["rABC"].previous_balance = Some(100000000)
  /\ balance_change(accounts["rABC"]) = Some(500000)

\* C21: after add_wallet the wallets entry of the address is the new
\* WalletInfo, whatever entry was there, and no other entry has changed; the
\* address has an AccountState: a new one with zero balance and no previous
\* balance if it had none, the one it had, unchanged, otherwise; and the
\* call returns.
C21_AddWalletEnsuresAccount ==
  [][\A a \in Accounts, k \in Seeds, src \in WalletSource :
       add_wallet(a, k, src) =>
         /\ wallets'[a] = [present |-> TRUE, seed |-> k, source |-> src]
         /\ \A b \in Accounts \ {a} : wallets'[b] = wallets[b] /\ accounts'[b] = accounts[b]
         /\ accounts'[a] = IF accounts[a].present THEN accounts[a]
                           ELSE [present |-> TRUE, balance |-> 0, previous_balance |-> None]
         /\ store_op'.result = "returned"]_vars

\* C21's case: "rABC" has a balance with a previous balance, and its wallet
\* entry is the imported one that replaced the faucet one; "rDEF" has a
\* fresh account made by add_wallet.
C21_Witness ==
  /\ store_op = StoreCall("add_wallet", 0)
  /\ wallets["rABC"] = WalletInfo("s2", "IMPORTED")
  /\ accounts["rABC"].balance = 100500000
  /\ accounts["rABC"].previous_balance = Some(0)
  /\ wallets["rDEF"].present
  /\ accounts["rDEF"] = AccountState(0)

\* The first record with the hash in a list of transactions, or None.
FirstWithHash(txs, h) ==
  IF \E i \in 1..Len(txs) : txs[i].tx_hash = h
  THEN Some(txs[CHOOSE i \in 1..Len(txs) :
                  txs[i].tx_hash = h /\ \A j \in 1..(i - 1) : txs[j].tx_hash # h])
  ELSE None

\* C23: get_transaction(h) returns the pending record with hash h if there
\* is one, otherwise the first record with hash h of recent-history,
\* otherwise None; and it changes nothing in the store.
C23_GetTransaction ==
  [][\A h \in 1..MaxHashes :
       get_transaction(h) =>
         /\ lookup'.result =
              IF FirstWithHash(pending_transactions, h) # None
              THEN FirstWithHash(pending_transactions, h)
              ELSE FirstWithHash(recent_transactions, h)
         /\ UNCHANGED <<storeVars, wallets, ledger>>]_vars

\* C23's case: hash 1 has a record in recent-history and one in the pending
\* set, and the lookup returned the pending one.
C23_Witness ==
  /\ lookup.tx_hash = 1
  /\ HashCount(recent_transactions, 1) > 0
  /\ HashCount(pending_transactions, 1) > 0
  /\ lookup.result = Some(TransactionState(1, "PENDING", None))

\* C28: every record of the pending set has status PENDING and every record
\* of recent-history has status VALIDATED or FAILED; the records of
\* recent-history stay as they are (a step only puts one in front of them),
\* and so do the records that stay in the pending set: a status changes
\* only when its record moves from the pending set to recent-history.
C28_StatusChangesOnce ==
  [][/\ \A i \in 1..Len(pending_transactions') : pending_transactions'[i].status = "PENDING"
     /\ \A i \in 1..Len(recent_transactions') :
          recent_transactions'[i].status \in {"VALIDATED", "FAILED"}
     /\ \/ recent_transactions' = recent_transactions
        \/ /\ Len(recent_transactions') > 0
           /\ \A i \in 2..Len(recent_transactions') :
                recent_transactions'[i] = recent_transactions[i - 1]
     /\ \/ pending_transactions' = pending_transactions
        \/ /\ Len(pending_transactions') = Len(pending_transactions) + 1
           /\ SubSeq(pending_transactions', 1, Len(pending_transactions)) = pending_transactions
        \/ \E i \in 1..Len(pending_transactions) :
             /\ pending_transactions' = RemoveFirst(pending_transactions, pending_transactions[i])
             /\ recent_transactions'[1].tx_hash = pending_transactions[i].tx_hash
             /\ Len(recent_transactions') = Len(recent_transactions) + 1]_vars

\* C28's case: one pending transaction was validated, one failed, and one
\* is still pending.
C28_Witness ==
  /\ store_op = StoreCall("mark_transaction_failed", 2)
  /\ Len(recent_transactions) = 2
  /\ recent_transactions[1].status = "FAILED"
  /\ recent_transactions[2].status = "VALIDATED"
  /\ Len(pending_transactions) = 1
  /\ pending_transactions[1].status = "PENDING"

\* C24: a failure of the open, of a restoring send or of a read never ends
\* connect() with an exception: while no stop is requested the task goes on
\* to announce RECONNECTING and to the backoff sleep, and after a stop it
\* goes on to the loop's exit; connect() returns only when a stop has been
\* requested, and then the state is DISCONNECTED.
C24_FailuresAbsorbed ==
  [][/\ fails' > fails =>
          /\ pc' = "dispatch"
          /\ IF _should_run
             THEN /\ _state' = "RECONNECTING"
                  /\ msg' = StateMessage("RECONNECTING")
                  /\ ret' = "sleep"
             ELSE /\ _state' = "DISCONNECTED"
                  /\ msg' = StateMessage("DISCONNECTED")
                  /\ ret' = "done"
     /\ (pc # "done" /\ pc' = "done") => (~_should_run /\ _state' = "DISCONNECTED")]_vars

\* C24's case: connect() has returned after a stop, with two failures
\* absorbed on the way.
C24_Witness ==
  /\ pc = "done"
  /\ fails = 2
  /\ ~_should_run
  /\ _state = "DISCONNECTED"

\* C25: while no stop is requested, a failure (the state is RECONNECTING) is
\* followed by another attempt to open the transport, after any number of
\* failures in a row.
C25_KeepsTrying ==
  (_state = "RECONNECTING" /\ _should_run) ~> (pc = "open" \/ ~_should_run)

\* C25's case: the seventh failure in a row has been followed by an eighth
\* attempt.
C25_Witness ==
  /\ pc = "open"
  /\ fails = 7
  /\ _should_run

\* C22: update_ledger overwrites the index, the hash and the transaction
\* count with its arguments; it replaces the close time with the converted
\* time whenever a close time is supplied, 0 included, and leaves the close
\* time as it was exactly when none is supplied.
C22_CloseTimeReplacedWhenSupplied ==
  [][\A i \in LedgerIndexes, h \in LedgerHashes, c \in CloseTimes, n \in TxnCounts :
       update_ledger(i, h, c, n) =>
         /\ ledger'.ledger_index = i
         /\ ledger'.ledger_hash = h
         /\ ledger'.txn_count = n
         /\ ledger'.close_time = IF c = None THEN ledger.close_time
                                 ELSE Some(RippleEpoch + c[1])]_vars

\* C26: a task is inside a _get_client block exactly when it holds the
\* lock, so at most one task is inside one; a block is entered only with
\* the lock free and the client set and open, and an attempt without such a
\* client ends with "not connected" and the lock free; whatever way a block
\* is left, the lock is free afterwards.
C26_ScopedLock ==
  [][/\ \A t \in Tasks : InBlock(t)' <=> _ws_lock' = t
     /\ \A t, u \in Tasks : (InBlock(t)' /\ InBlock(u)') => t = u
     /\ \A t \in Tasks :
          (~InBlock(t) /\ InBlock(t)') => (_ws_lock = "free" /\ _ws_client = "Client" /\ ws_open)
     /\ \A t \in Tasks :
          (Job(t).pc = "acquire" /\ Job(t)' # Job(t) /\ ~(_ws_client = "Client" /\ ws_open)) =>
            (Job(t)'.outcome = "not_connected" /\ _ws_lock' = "free")
     /\ \A t \in Tasks : (InBlock(t) /\ ~InBlock(t)') => _ws_lock' = "free"]_vars

\* C26's case: the keyboard task's request has crashed on the closed
\* transport, and after it the worker's task is inside a block, holding
\* the lock, on the transport of a later connection.
C26_Witness ==
  /\ ut["task1"].outcome = "failed"
  /\ _ws_lock = "worker"
  /\ wk.job.pc = "refresh"
  /\ ws_open

\* C27: every step that stores a balance with update_account_balance is a
\* step of the one task that is inside a _get_client block and holds the
\* lock.
C27_UpdatesUnderLock ==
  [][balance_log' # balance_log =>
       \E t \in Tasks :
         /\ _ws_lock = t
         /\ Job(t).pc \in {"balance", "refresh"}
         /\ Job(t)' # Job(t)
         /\ \A u \in Tasks \ {t} : Job(u)' = Job(u)]_vars

\* C27's case: the keyboard task has stored the balance of an imported
\* wallet, and the worker, refreshing after a transaction frame, has stored
\* another and still holds the lock.
C27_Witness ==
  /\ ut["task1"].outcome = "imported"
  /\ wk.job.kind = "dispatch_refresh"
  /\ wk.job.pc = "refresh"
  /\ wk.job.todo = {}
  /\ _ws_lock = "worker"
  /\ balance_log["rABC"] = <<100000000, 100500000>>

\* The addresses with a wallet in the store.
WalletsHeld == {a \in Accounts : wallets[a].present}

\* C29: the step of a faucet creation that adds the wallet adds exactly one
\* wallet, and its later steps add none; at the step that ends the
\* creation with success the wallet of the generated address has source
\* FAUCET, the address has an AccountState, and its balance is the one
\* this step fetched and stored.
C29_FaucetWalletCreated ==
  [][\A t \in AppTasks :
       /\ (Job(t).pc = "generate" /\ Job(t)'.pc = "subscribe") =>
            /\ Cardinality(WalletsHeld') = Cardinality(WalletsHeld) + 1
            /\ WalletsHeld' = WalletsHeld \cup {Job(t)'.address}
       /\ (Job(t).kind = "faucet" /\ Job(t).pc \in {"subscribe", "balance"}) => wallets' = wallets
       /\ (Job(t).pc # "idle" /\ Job(t)'.outcome = "created") =>
            LET a == Job(t).address
            IN  /\ wallets'[a].present
                /\ wallets'[a].source = "FAUCET"
                /\ accounts'[a].present
                /\ Len(balance_log'[a]) = Len(balance_log[a]) + 1
                /\ accounts'[a].balance = balance_log'[a][Len(balance_log'[a])]]_vars

\* C29's case: the faucet creation has ended with success; the store holds
\* the one wallet, with the balance fetched.
C29_Witness ==
  /\ ut["task1"].outcome = "created"
  /\ WalletsHeld = {"rABC"}
  /\ wallets["rABC"] = WalletInfo("s1", "FAUCET")
  /\ accounts["rABC"].balance = 100500000
  /\ balance_log["rABC"] = <<100500000>>

\* C30: the step that handles a ledgerClosed frame leaves the displayed
\* current ledger and the store's cursor index equal to the frame's
\* ledger_index, lower than the one before or not, and the cursor's hash
\* and transaction count equal to the frame's.
C30_LedgerOverwritten ==
  [][\A message \in LedgerClosedFrames :
       HandleLedgerClosed(message) =>
         /\ current_ledger' = message.ledger_index
         /\ ledger'.ledger_index = message.ledger_index
         /\ ledger'.ledger_hash = message.ledger_hash
         /\ ledger'.txn_count = message.txn_count]_vars

\* C30's case: the frame of ledger 7 has been handled; its close time has
\* replaced the one before it.
C30_Witness ==
  /\ current_ledger = 7
  /\ ledger = [ledger_index |-> 7, ledger_hash |-> "CD34", txn_count |-> 3,
               close_time |-> Some(1746684800)]
  /\ ledger_time = Some(1746684800 % 86400)
  /\ wk.pc = "read"

\* C36: whatever add_wallet, remove_wallet, add_account, remove_account and
\* update_account_balance calls have been made, every address with a wallet
\* in the store has an AccountState too.
C36_WalletHasAccount == \A a \in Accounts : wallets[a].present => accounts[a].present

\* C36's case: "rABC" has lost its account and its wallet to
\* remove_account, and "rDEF" has kept its account through remove_wallet and
\* has a wallet again.
C36_Witness ==
  /\ store_op = StoreCall("remove_account", 0)
  /\ ~wallets["rABC"].present
  /\ ~accounts["rABC"].present
  /\ balance_log["rABC"] # <<>>
  /\ wallets["rDEF"].present
  /\ accounts["rDEF"].previous_balance # None

\* The calls of the tasks that have sent, or are sending, a Subscribe
\* request naming the stream (or the address) on the transport.
SubscribeCalls(entry) ==
  {t \in Callers :
     /\ tk[t].op \in {"subscribe_stream", "subscribe_accounts"}
     /\ \/ tk[t].st = "sending" /\ tk[t].live
        \/ tk[t].st = "returned" /\ tk[t].res = "ok"
     /\ entry \in Covers(tk[t].req).streams \cup Covers(tk[t].req).accounts}

\* The places of the replay list whose request names the stream (or the
\* address).
ReplayEntries(entry) ==
  {i \in 1..Len(_pending_subscriptions) :
     entry \in Covers(_pending_subscriptions[i]).streams
               \cup Covers(_pending_subscriptions[i]).accounts}

\* C33: when two tasks ask for the same stream or address while connected,
\* one Subscribe request for it goes out and one entry for it is in the
\* replay list, however their calls interleave.
C33_OneSubscribePerEntry ==
  \A entry \in Streams \cup Accounts :
    Cardinality(SubscribeCalls(entry)) <= 1

\* C37: after any subscribe and unsubscribe operations of the tracker, each
\* stream and each address is named by at most one request of the replay
\* list.
C37_ReplayListHasNoRepeats ==
  \A entry \in Streams \cup Accounts : Cardinality(ReplayEntries(entry)) <= 1

\* C40: when a subscribe operation has failed (NotConnected, or the
\* transport's send raising), the tracker's set has an entry of the request
\* exactly when the replay list names it: the failed call has left nothing
\* in either.
C40_FailedSubscribeLeavesNothing ==
  \A t \in Callers :
    (/\ tk[t].st = "returned"
     /\ tk[t].op \in {"subscribe_stream", "subscribe_accounts"}
     /\ tk[t].res \in {"NotConnected", "TransportError"}) =>
      \A entry \in Covers(tk[t].req).streams \cup Covers(tk[t].req).accounts :
        (entry \in _subscribed_streams \cup _subscribed_accounts) <=> ReplayEntries(entry) # {}

\* The request at place i of the replay list has gone out on the open
\* transport, replayed by the supervisor; or it was put on the list after
\* the replay had passed and its caller has sent it, or is sending it, on
\* this transport.
SentOnLink(i) ==
  \/ [req |-> _pending_subscriptions[i], via |-> "replay"] \in BagToSet(wire)
  \/ /\ i >= rs_idx
     /\ \/ [req |-> _pending_subscriptions[i], via |-> "send"] \in BagToSet(wire)
        \/ \E t \in Callers : /\ tk[t].st = "sending"
                              /\ tk[t].live
                              /\ tk[t].req = _pending_subscriptions[i]

\* The supervisor reads, or dispatches, the frames of an open transport.
ReadingFrames == link_open /\ (pc = "read" \/ (pc = "dispatch" /\ ret = "read"))

\* C38: on every successful connection the whole replay list is sent on the
\* new transport after the CONNECTED event has been dispatched and before
\* any frame of that connection is read; a send failing during the replay
\* closes the transport and goes to the failure branch of connect(), and
\* the next successful connection replays the list from its first request.
C38_ReplayBeforeFrames ==
  [][/\ ReadingFrames' => \A i \in 1..Len(_pending_subscriptions') : SentOnLink(i)'
     /\ (pc' = "dispatch" /\ ret' = "restore") =>
          \A e \in BagToSet(wire') : e.via # "replay"
     /\ (pc = "open" /\ link_open') =>
          (rs_idx' = 1 /\ msg' = StateMessage("CONNECTED") /\ ret' = "restore")
     /\ (pc = "restore" /\ fails' > fails) =>
          /\ ~link_open'
          /\ wire' = EmptyBag
          /\ pc' = "dispatch"
          /\ ret' = IF _should_run THEN "sleep" ELSE "done"]_vars

\* C38's case: two requests tracked on an earlier transport were both
\* replayed on the present one, no caller has sent anything on it, and a
\* frame of this connection is being dispatched.
C38_Witness ==
  /\ pc = "dispatch" /\ ret = "read" /\ link_open
  /\ AllIdle
  /\ Len(_pending_subscriptions) = 2
  /\ \A i \in 1..2 : [req |-> _pending_subscriptions[i], via |-> "replay"] \in BagToSet(wire)
  /\ \A e \in BagToSet(wire) : e.via = "replay"

\* The places of the present dispatch at which callback c was called.
CallsOf(c) == {i \in 1..Len(delivered) : delivered[i].cb = c}

\* C35: when the dispatch of a frame ends, every callback that was
\* registered when it began and is registered still (no callback removed
\* it meanwhile) has been called with the frame exactly once, whatever the
\* callbacks registered or removed during the dispatch.
C35_MutationKeepsDelivery ==
  [][(pc = "dispatch" /\ msg.type = "frame" /\ pc' # "dispatch") =>
        \A c \in Range(at_dispatch) \cap Range(_message_callbacks) :
          Cardinality(CallsOf(c)) = 1]_vars

\* The task that holds the lock can go on: the request it awaits raises
\* (or, in a refresh, the loop goes on or ends) whatever the others do.
HolderCanGo(t) ==
  ENABLED (RequestFails(t) \/ RefreshDone(t) \/ \E a \in Accounts : RefreshSkip(t, a))

\* The tasks that wait for the lock: in _get_client, or the worker about to
\* set or clear the client.
WaitsForLock(t) ==
  \/ Job(t).pc = "acquire"
  \/ t = "worker" /\ wk.job.pc = "idle" /\ wk.pc \in {"setclient", "clear"}

\* A task that waits for the lock can take it.
WaiterCanGo(t) ==
  \/ Job(t).pc = "acquire" /\ ENABLED Enter(t)
  \/ t = "worker" /\ ENABLED (WkSetClient \/ WkClearClient)

\* C39: the lock is free or held by one task that is inside a _get_client
\* block; the holder never asks for the lock again, and the worker holds
\* it only inside the refresh of a dispatch, never where it sets or clears
\* the client; in every state the holder can go on, and with the lock free every task
\* that waits for it can take it: no state is a deadlock.
C39_NoDeadlock ==
  /\ _ws_lock \in {"free"} \cup Tasks
  /\ \A t \in Tasks :
       _ws_lock = t => (InBlock(t) /\ ~WaitsForLock(t) /\ HolderCanGo(t))
  /\ _ws_lock = "worker" => wk.pc = "read"
  /\ _ws_lock = "free" => \A t \in Tasks : WaitsForLock(t) => WaiterCanGo(t)

\* C39's case: the worker waits to clear the client of a closed transport
\* while the keyboard task, in a payment, holds the lock.
C39_Witness ==
  /\ wk.pc = "clear"
  /\ wk.job.pc = "idle"
  /\ ~ws_open
  /\ _ws_lock = "task1"
  /\ ut["task1"].kind = "payment"
  /\ ut["task1"].pc = "submit"

\* The task starts an import with this step.
ImportStarts(t) == Job(t).pc = "idle" /\ Job(t)'.kind = "import" /\ Job(t)'.pc = "acquire"

\* The task's import reaches _get_client with this step and finds no
\* usable client.
ImportFindsNoClient(t) ==
  /\ Job(t).kind = "import"
  /\ Job(t).pc = "acquire"
  /\ Job(t)' # Job(t)
  /\ ~ClientUsable

\* C32: an import adds the wallet with source IMPORTED before it asks for
\* the client, with an AccountState of zero balance when the address had
\* none; when it then finds no open transport it raises nothing: the
\* coroutine ends, the wallet and its account stay as they are, no balance
\* is stored, the wallet-created event is posted and no account-updated
\* event is.
C32_ImportWithoutTransport ==
  [][\A t \in AppTasks :
       /\ ImportStarts(t) =>
            LET a == Job(t)'.address
            IN  /\ wallets'[a].present
                /\ wallets'[a].source = "IMPORTED"
                /\ accounts'[a] = IF accounts[a].present THEN accounts[a] ELSE AccountState(0)
       /\ ImportFindsNoClient(t) =>
            LET a == Job(t).address
            IN  /\ wallets[a].present /\ wallets[a].source = "IMPORTED"
                /\ accounts[a].present
                /\ UNCHANGED <<wallets, accounts, balance_log>>
                /\ Job(t)'.pc = "idle"
                /\ Job(t)'.outcome = "not_connected"
                /\ _ws_lock' = "free"
                /\ ImportEvents(Job(t)'.outcome) = {"WalletCreated"}]_vars

\* C32's case: a wallet of a new address has been imported while the
\* worker has no transport; the store holds it with a zero balance, and the
\* import is at _get_client, where it will find no client.
C32_Witness ==
  /\ ut["task1"].kind = "import"
  /\ ut["task1"].pc = "acquire"
  /\ ut["task1"].address = "rABC"
  /\ _ws_client = "None"
  /\ ~ws_open
  /\ _ws_lock = "free"
  /\ wallets["rABC"].source = "IMPORTED"
  /\ accounts["rABC"] = AccountState(0)
  /\ balance_log["rABC"] = <<>>

\* C34: an address that remove_account has taken out of accounts comes
\* back only by an add_wallet, an add_account or an observation started
\* afterwards: no step of a refresh, which asks only for the addresses it
\* read when it began, brings an address into accounts.
C34_RemovedStaysRemoved ==
  [][\A t \in Tasks, a \in Accounts :
       (Job(t).pc = "refresh" /\ Job(t)' # Job(t) /\ ~accounts[a].present)
         => ~accounts'[a].present]_vars

\* C31: once the worker has re-established its connection and sent its
\* subscriptions (it reads frames on the open transport), the account
\* subscriptions issued earlier have gone out again on the present
\* transport, with no action of the user: the latest of them is not one
\* that only an earlier transport has carried.
C31_AccountsResubscribed ==
  (wk.pc = "read" /\ ws_open) => last_account_sub # "stale"
====
